---- MODULE Spec2Model ----
(***************************************************************************)
(* A model of openapi-codegen: the path filter (utils/string.ts), the      *)
(* schema reference walker (APISpecParser), the model emitter              *)
(* (DTOGenerator) and the orchestrator (OpenAPICodeGenerator).             *)
(*                                                                         *)
(* Strings that the code cuts or concatenates are sequences of one-char    *)
(* strings (paths, patterns) or of segments (a $ref is the sequence of its *)
(* "/"-separated parts, a model name the sequence of its "."-separated     *)
(* parts), so that substring/lastIndexOf/split are real operations.        *)
(***************************************************************************)
EXTENDS Integers, Sequences, FiniteSets, TLC

VARIABLES
    \* regexFilter harness
    fpc, fText, fPattern, fResult,
    \* APISpecParser
    doc, dfilter, dpc, dstack, modelRefs, processedRefs, expansions, dresult,
    \* DTOGenerator
    definitions, genList, genArg, frames, dtoProcessedRefs, processingStack,
    dtoOutputs, dropped, warnings, epc,
    \* OpenAPICodeGenerator
    config, rpc, epIdx, patIdx, fetches, attempted, pending, writes,
    successCount, errorCount, reported, wlog,
    \* repeated discoverModelPaths calls
    dphase, dfirst,
    \* OpenAPICodeGenerator.generateForPathPattern
    ppc, patternArg, getOutputs, postOutputs, allOutputs,
    \* CodeBuilder: the static default, one instance, the last call made on it
    defaultIndentSize, builder, lastCall, returned, accumulated,
    \* OpenAPICodeGenerator instances of one process
    instances

filterVars == <<fpc, fText, fPattern, fResult>>
discVars == <<doc, dfilter, dpc, dstack, modelRefs, processedRefs, expansions, dresult>>
emitVars == <<definitions, genList, genArg, frames, dtoProcessedRefs, processingStack,
              dtoOutputs, dropped, warnings, epc>>
runVars == <<config, rpc, epIdx, patIdx, fetches, attempted, pending, writes,
             successCount, errorCount, reported, wlog>>
repeatVars == <<dphase, dfirst>>
patternVars == <<ppc, patternArg, getOutputs, postOutputs, allOutputs>>
builderVars == <<defaultIndentSize, builder, lastCall, returned, accumulated, instances>>
vars == <<filterVars, discVars, emitVars, runVars, repeatVars, patternVars, builderVars>>

(***************************************************************************)
(* Bounds                                                                  *)
(***************************************************************************)
\* longest pattern and longest text handed to regexFilter in FilterSpec
MaxPatLen == 3
MaxTextLen == 3
\* longest path filter handed to discoverModelPaths
MaxFilterLen == 2
\* longest list handed to DTOGenerator.generate
MaxList == 3
\* most output records one path pattern yields
MaxOutputs == 2

\* sequences over S of length at most n
RECURSIVE SeqsUpTo(_, _)
SeqsUpTo(S, n) ==
    IF n = 0 THEN {<<>>}
    ELSE LET shorter == SeqsUpTo(S, n - 1)
         IN shorter \cup {Append(s, x) : s \in shorter, x \in S}

Has(r, f) == f \in DOMAIN r
Last(s) == s[Len(s)]
Front(s) == SubSeq(s, 1, Len(s) - 1)
Range(s) == {s[i] : i \in 1..Len(s)}

(***************************************************************************)
(* utils/string.ts: regexFilter.  The regular expressions are those built  *)
(* from literal characters, ".", a postfix "*" and "|"; the anchors are    *)
(* the two characters the code glues around the pattern text.              *)
(***************************************************************************)
PathChars == {"/", "u"}
PatChars == PathChars \cup {".", "*", "|"}

\* the source text handed to new RegExp
RegExpSource(pattern) == <<"^">> \o pattern \o <<"$">>

\* Disjunction :: Alternative | Alternative "|" Disjunction
RECURSIVE SplitAlternatives(_)
SplitAlternatives(s) ==
    IF \A i \in 1..Len(s) : s[i] # "|" THEN <<s>>
    ELSE LET i == CHOOSE k \in 1..Len(s) :
                      s[k] = "|" /\ \A j \in 1..(k - 1) : s[j] # "|"
         IN <<SubSeq(s, 1, i - 1)>> \o SplitAlternatives(SubSeq(s, i + 1, Len(s)))

\* Alternative :: Term*, Term :: Assertion | Atom | Atom "*"
RECURSIVE ParseAlternative(_)
ParseAlternative(s) ==
    IF s = <<>> THEN <<>>
    ELSE LET star == Len(s) >= 2 /\ s[2] = "*"
         IN <<[ch |-> s[1], star |-> star]>>
            \o ParseAlternative(SubSeq(s, IF star THEN 3 ELSE 2, Len(s)))

\* new RegExp throws SyntaxError ("nothing to repeat") on a "*" that follows
\* no atom: at the start of an alternative, after an assertion, after a "*"
RECURSIVE AlternativeParses(_)
AlternativeParses(s) ==
    IF s = <<>> THEN TRUE
    ELSE IF s[1] = "*" THEN FALSE
    ELSE LET star == Len(s) >= 2 /\ s[2] = "*"
         IN IF star /\ s[1] \in {"^", "$"} THEN FALSE
            ELSE AlternativeParses(SubSeq(s, IF star THEN 3 ELSE 2, Len(s)))

RegExpParses(source) ==
    LET alts == SplitAlternatives(source)
    IN \A i \in 1..Len(alts) : AlternativeParses(alts[i])

AtomMatches(ch, c) == ch = "." \/ ch = c

\* the positions a term can end at, started at any position of P
TermEnds(term, text, P) ==
    IF term.ch = "^" THEN {p \in P : p = 1}
    ELSE IF term.ch = "$" THEN {p \in P : p = Len(text) + 1}
    ELSE IF term.star
    THEN {q \in 1..(Len(text) + 1) :
            \E p \in P : p <= q /\ \A r \in p..(q - 1) : AtomMatches(term.ch, text[r])}
    ELSE {p + 1 : p \in {q \in P : q <= Len(text) /\ AtomMatches(term.ch, text[q])}}

RECURSIVE AlternativeEnds(_, _, _, _)
AlternativeEnds(terms, k, text, P) ==
    IF k > Len(terms) THEN P
    ELSE AlternativeEnds(terms, k + 1, text, TermEnds(terms[k], text, P))

\* RegExp.prototype.test: some alternative matches at some start position
RegExpTest(source, text) ==
    LET alts == SplitAlternatives(source)
    IN \E start \in 1..(Len(text) + 1) : \E i \in 1..Len(alts) :
          AlternativeEnds(ParseAlternative(alts[i]), 1, text, {start}) # {}

regexFilter(text, pattern) ==
    LET source == RegExpSource(pattern)
    IN IF RegExpParses(source)
       THEN [threw |-> FALSE, value |-> RegExpTest(source, text)]
       ELSE [threw |-> TRUE, value |-> FALSE]

(***************************************************************************)
(* types/ISchema.ts: documents.  An absent field of the source is an       *)
(* absent field of the record.  additionalProperties is tagged with what   *)
(* typeof gives for it.                                                    *)
(***************************************************************************)
Name(n) == <<n>>
LegacyRef(name) == [ref |-> <<"#", "definitions", name>>]
CurrentRef(name) == [ref |-> <<"#", "components", "schemas", name>>]
AddlSchema(s) == [typeof |-> "object", schema |-> s]
AddlFlag(b) == [typeof |-> "boolean", flag |-> b]
Prop(n, s) == [name |-> n, schema |-> s]
StringSchema == [type |-> "string"]

\* legacy dialect: a two-model cycle behind "/", a self-reference, an array
\* response, a map of a model with no dictionary entry behind "/u"
DocLegacy ==
    [openapi |-> FALSE,
     paths |-> <<
        [path |-> <<"/">>,
         item |-> [get |-> [parameters |-> <<[name |-> <<"q">>, in |-> "query",
                                            type |-> "string"]>>,
                            responses |-> <<[key |-> "200",
                                             schema |-> LegacyRef(Name("A"))]>>]]],
        [path |-> <<"/", "u">>,
         item |-> [parameters |-> <<[name |-> <<"i">>, in |-> "path", required |-> TRUE,
                                     type |-> "string"]>>,
                   post |-> [parameters |-> <<[name |-> <<"c">>, in |-> "body",
                                                schema |-> LegacyRef(Name("C"))]>>,
                             responses |-> <<
                                [key |-> "200",
                                 schema |-> [type |-> "array",
                                             items |-> LegacyRef(Name("D"))]],
                                [key |-> "204"]>>]]]>>,
     definitions |->
        (Name("A") :> [type |-> "object",
                       properties |-> <<Prop(<<"b">>, LegacyRef(Name("B")))>>]
         @@ Name("B") :> [type |-> "object",
                          properties |-> <<Prop(<<"a">>, LegacyRef(Name("A")))>>]
         @@ Name("C") :> [type |-> "object",
                          properties |-> <<Prop(<<"s">>, StringSchema),
                                           Prop(<<"c">>, LegacyRef(Name("C")))>>]
         @@ Name("D") :> [type |-> "object",
                          additionalProperties |->
                              AddlSchema(LegacyRef(Name("E")))])]

\* current dialect: path-level parameter, request body with two media types,
\* composition, a cycle of three, an array schema that also has properties
DocCurrent ==
    [openapi |-> TRUE,
     paths |-> <<
        [path |-> <<"/">>,
         item |-> [parameters |-> <<[name |-> <<"p">>, in |-> "query",
                                     schema |-> CurrentRef(Name("P"))]>>,
                   get |-> [responses |-> <<
                               [key |-> "200",
                                content |-> <<[schema |-> CurrentRef(Name("L"))]>>]>>]]],
        [path |-> <<"/", "u">>,
         item |-> [post |-> [requestBody |->
                                [content |-> <<
                                    [schema |-> CurrentRef(Name("X"))],
                                    [schema |-> [oneOf |-> <<CurrentRef(Name("Y"))>>,
                                                 anyOf |-> <<StringSchema>>]]>>],
                             responses |-> <<
                                [key |-> "200",
                                 content |-> <<[schema |-> StringSchema]>>]>>],
                   delete |-> [responses |-> <<
                                [key |-> "200",
                                 content |-> <<[schema |-> CurrentRef(Name("X"))]>>]>>]]]>>,
     components |-> [schemas |->
        (Name("P") :> [allOf |-> <<CurrentRef(Name("Q"))>>]
         @@ Name("Q") :> [type |-> "array", items |-> CurrentRef(Name("R"))]
         @@ Name("R") :> [type |-> "object",
                          additionalProperties |-> AddlFlag(TRUE),
                          properties |-> <<Prop(<<"p">>, CurrentRef(Name("P")))>>]
         @@ Name("L") :> [type |-> "array",
                          items |-> CurrentRef(Name("I")),
                          properties |-> <<Prop(<<"h">>, CurrentRef(Name("H")))>>]
         @@ Name("I") :> [type |-> "object",
                          properties |-> <<Prop(<<"n">>, [type |-> "integer"])>>]
         @@ Name("H") :> [type |-> "object"]
         @@ Name("X") :> [type |-> "object",
                          properties |-> <<Prop(<<"x">>, CurrentRef(Name("X")))>>]
         @@ Name("Y") :> [type |-> "object"])]]

Documents == {DocLegacy, DocCurrent}

(***************************************************************************)
(* builder/APISpecParser.ts                                                *)
(***************************************************************************)
\* the schema dictionary, at the place the document's dialect keeps it
DictionaryOf(d) ==
    IF d.openapi
    THEN (IF Has(d, "components") THEN d.components.schemas ELSE <<>>)
    ELSE (IF Has(d, "definitions") THEN d.definitions ELSE <<>>)

extractRefName(ref) == Last(ref)

\* Set.prototype.add on the insertion-ordered set
addModelReference(refs, refName) ==
    IF refName \in Range(refs) THEN refs ELSE Append(refs, refName)

\* the schemas processCompositeSchema hands to processSchema, in call order
CompositeChildren(schema) ==
    IF Has(schema, "type") /\ schema.type = "array" /\ Has(schema, "items")
    THEN <<schema.items>>
    ELSE (IF Has(schema, "allOf") THEN schema.allOf ELSE <<>>)
         \o (IF Has(schema, "oneOf") THEN schema.oneOf ELSE <<>>)
         \o (IF Has(schema, "anyOf") THEN schema.anyOf ELSE <<>>)
         \o (IF Has(schema, "additionalProperties")
                /\ schema.additionalProperties.typeof = "object"
             THEN <<schema.additionalProperties.schema>> ELSE <<>>)
         \o (IF Has(schema, "properties")
             THEN [i \in 1..Len(schema.properties) |-> schema.properties[i].schema]
             ELSE <<>>)

\* the canonical numeric value of a property key that is an array index,
\* -1 for any other key
IntegerKey(key) ==
    CASE key = "200" -> 200
      [] key = "204" -> 204
      [] key = "404" -> 404
      [] OTHER -> -1

\* Object.values of an object whose entries were declared in the order of
\* the sequence: integer keys first, ascending, then the other keys in the
\* order of declaration
RECURSIVE SortByIntegerKey(_)
SortByIntegerKey(entries) ==
    IF entries = <<>> THEN <<>>
    ELSE LET least == CHOOSE i \in 1..Len(entries) :
                         \A j \in 1..Len(entries) :
                             \/ IntegerKey(entries[i].key) < IntegerKey(entries[j].key)
                             \/ /\ IntegerKey(entries[i].key) = IntegerKey(entries[j].key)
                                /\ i <= j
         IN <<entries[least]>>
            \o SortByIntegerKey([k \in 1..(Len(entries) - 1) |->
                                    IF k < least THEN entries[k] ELSE entries[k + 1]])

ObjectValues(entries) ==
    SortByIntegerKey(SelectSeq(entries, LAMBDA e : IntegerKey(e.key) >= 0))
    \o SelectSeq(entries, LAMBDA e : IntegerKey(e.key) < 0)

RECURSIVE Flatten(_)
Flatten(ss) == IF ss = <<>> THEN <<>> ELSE Head(ss) \o Flatten(Tail(ss))

SchemasOfContent(content) ==
    LET with == SelectSeq(content, LAMBDA c : Has(c, "schema"))
    IN [i \in 1..Len(with) |-> with[i].schema]

\* processParameter over path-level then operation-level parameters
ParameterSchemas(item, op) ==
    LET params == (IF Has(item, "parameters") THEN item.parameters ELSE <<>>)
                  \o (IF Has(op, "parameters") THEN op.parameters ELSE <<>>)
        with == SelectSeq(params, LAMBDA p : Has(p, "schema"))
    IN [i \in 1..Len(with) |-> with[i].schema]

\* processRequestBody, current dialect only
RequestBodySchemas(d, op) ==
    IF d.openapi /\ Has(op, "requestBody")
    THEN SchemasOfContent(IF Has(op.requestBody, "content")
                          THEN op.requestBody.content ELSE <<>>)
    ELSE <<>>

ResponseSchemas(d, response) ==
    IF d.openapi /\ Has(response, "content") THEN SchemasOfContent(response.content)
    ELSE IF Has(response, "schema") THEN <<response.schema>>
    ELSE <<>>

\* processResponseModels
processResponseModels(d, op) ==
    LET rs == IF Has(op, "responses") THEN ObjectValues(op.responses) ELSE <<>>
    IN Flatten([i \in 1..Len(rs) |-> ResponseSchemas(d, rs[i])])

\* processOperation: request models, then response models
processOperation(d, item, op) ==
    ParameterSchemas(item, op) \o RequestBodySchemas(d, op) \o processResponseModels(d, op)

WalkedMethods == <<"get", "post", "put", "delete">>

\* processPathOperations: the operations that exist, in the fixed order
processPathOperations(d, item) ==
    LET ms == SelectSeq(WalkedMethods, LAMBDA m : Has(item, m))
    IN Flatten([i \in 1..Len(ms) |-> processOperation(d, item, item[ms[i]])])

\* processMatchingPaths: the entries the filter keeps; an empty pattern is
\* falsy and keeps every entry
pathsToProcess(d, pattern) ==
    IF pattern = <<>> THEN d.paths
    ELSE SelectSeq(d.paths, LAMBDA e : regexFilter(e.path, pattern).value)

\* new RegExp throws inside the filter callback, at the first entry
FilterThrows(d, pattern) ==
    pattern # <<>> /\ d.paths # <<>> /\ regexFilter(d.paths[1].path, pattern).threw

RootSchemas(d, pattern) ==
    LET es == pathsToProcess(d, pattern)
    IN Flatten([i \in 1..Len(es) |-> processPathOperations(d, es[i].item)])

\* processSchema line 187: expand a reference only the first time
ShouldExpandAlways(processed, refPath) == TRUE
ShouldExpand(processed, refPath) == refPath \notin processed

\* processReferencedSchema: the dictionary entry to visit, if there is one
ReferencedSchemas(d, refName) ==
    IF refName \in DOMAIN DictionaryOf(d) THEN <<DictionaryOf(d)[refName]>> ELSE <<>>

\* the most expansions one call is followed for
MaxExpansions == 9

(***************************************************************************)
(* Schema dictionaries handed to DTOGenerator                              *)
(***************************************************************************)
QName(ns, n) == <<ns, n>>

\* Base and three models that inherit from it through allOf
DictInherit ==
    Name("Base") :> [type |-> "object",
                     required |-> <<<<"i", "d">>>>,
                     properties |-> <<Prop(<<"i", "d">>, [type |-> "integer"])>>]
    @@ Name("Child") :> [allOf |-> <<LegacyRef(Name("Base")),
                                     [properties |-> <<Prop(<<"x">>, StringSchema)>>]>>]
    @@ Name("Alias") :> [allOf |-> <<LegacyRef(Name("Base"))>>]
    @@ Name("Mixed") :> [allOf |-> <<LegacyRef(Name("Base"))>>,
                         required |-> <<<<"y">>, <<"a", ".", "b">>>>,
                         properties |-> <<
                            Prop(<<"y">>, [type |-> "string", nullable |-> TRUE]),
                            Prop(<<"a", ".", "b">>,
                                 [type |-> "array", items |-> LegacyRef(Name("Base"))]),
                            Prop(<<"z">>, [type |-> "string", format |-> "binary"])>>]

\* two models referring to each other through properties, two through allOf
DictMutual ==
    Name("A") :> [type |-> "object",
                  required |-> <<<<"b">>, <<"n">>>>,
                  properties |-> <<Prop(<<"b">>, LegacyRef(Name("B"))),
                                   Prop(<<"n">>, [type |-> "string", nullable |-> TRUE]),
                                   Prop(<<"o">>, [type |-> "boolean"])>>]
    @@ Name("B") :> [type |-> "object",
                     properties |-> <<
                        Prop(<<"a">>, [type |-> "array", items |-> LegacyRef(Name("A"))]),
                        Prop(<<"m">>, [type |-> "object",
                                       additionalProperties |->
                                           AddlSchema([type |-> "number"])])>>]
    @@ Name("PA") :> [allOf |-> <<LegacyRef(Name("PB"))>>]
    @@ Name("PB") :> [allOf |-> <<LegacyRef(Name("PA"))>>]

\* namespace-qualified names, two models with the same leaf name
DictNamespaced ==
    QName("Ns", "Base") :> [type |-> "object",
                            required |-> <<<<"k">>>>,
                            properties |-> <<Prop(<<"k">>, StringSchema)>>]
    @@ QName("Ns", "Child") :> [allOf |-> <<CurrentRef(QName("Ns", "Base"))>>]
    @@ QName("API", "Base") :> [type |-> "object",
                                properties |-> <<
                                   Prop(<<"b">>, CurrentRef(QName("Ns", "Base")))>>]

\* the JSON value null in the place of a schema
NullSchema == [null |-> TRUE]

\* a property whose schema is null, and a model that inherits from the model
\* that has it; an array of binary strings, an array of strings and a map
\* whose values are models
DictShapes ==
    Name("Bad") :> [type |-> "object", properties |-> <<Prop(<<"x">>, NullSchema)>>]
    @@ Name("Kid") :> [allOf |-> <<LegacyRef(Name("Bad"))>>]
    @@ Name("Doc") :> [type |-> "object",
                       properties |-> <<
                          Prop(<<"files">>,
                               [type |-> "array",
                                items |-> [type |-> "string", format |-> "binary"]]),
                          Prop(<<"tags">>, [type |-> "array", items |-> StringSchema]),
                          Prop(<<"byName">>,
                               [type |-> "object",
                                additionalProperties |->
                                    AddlSchema(LegacyRef(Name("Tag")))])>>]
    @@ Name("Tag") :> [type |-> "object",
                       properties |-> <<Prop(<<"t">>, StringSchema)>>]

Dictionaries == {DictInherit, DictMutual, DictNamespaced, DictShapes}

\* a name no dictionary has
MissingName == Name("Missing")

(***************************************************************************)
(* core/config.ts, utils/path.ts, utils/string.ts                          *)
(***************************************************************************)
API_OUTPUT_PATH == "data-access/web-service"

\* the IEnumerable[[...]] unwrapping is left out: no name here has that form
getModelPathAndName(model) ==
    IF Len(model) = 1
    THEN [modelPath |-> <<>>, modelName |-> model[1]]
    ELSE [modelPath |-> Front(model), modelName |-> Last(model)]

\* one segment of createCorrectPath: all upper case to lower case, otherwise
\* camelize (the segments used here are single words)
CorrectSegment(segment) ==
    CASE segment = "Ns" -> "ns"
      [] segment = "API" -> "api"
      [] segment = "IO" -> "io"
      [] OTHER -> segment

createCorrectPath(modelPath) ==
    [i \in 1..Len(modelPath) |-> CorrectSegment(modelPath[i])]

buildFilePath(basePath, category, itemPath, fileName) ==
    [dir |-> <<basePath, category>> \o itemPath, file |-> fileName, ext |-> "ts"]

sanitizePropertyName(name) ==
    [i \in 1..Len(name) |-> IF name[i] = "." THEN "_" ELSE name[i]]

(***************************************************************************)
(* builder/generators: BaseGenerator and DTOGenerator.  A type is the      *)
(* sequence of the pieces its text is concatenated from.                   *)
(***************************************************************************)
mapPrimitiveType(type, format) ==
    CASE type \in {"integer", "number"} -> "number"
      [] type = "string" -> (IF format = "binary" THEN "Blob" ELSE "string")
      [] type = "boolean" -> "boolean"
      [] type = "object" -> "Record<string, any>"
      [] type = "array" -> "Array<any>"
      [] OTHER -> "any"

\* an absent format
NoFormat == "undefined"

ImportOf(refPath) ==
    LET pn == getModelPathAndName(refPath)
    IN [name |-> pn.modelName,
        path |-> <<API_OUTPUT_PATH, "dto", createCorrectPath(pn.modelPath), pn.modelName>>]

\* processInheritance: one import and one intersection member per $ref of allOf
processInheritance(definition) ==
    LET refs == SelectSeq(definition.allOf, LAMBDA item : Has(item, "ref"))
        imps == [i \in 1..Len(refs) |-> ImportOf(extractRefName(refs[i].ref))]
    IN [imports |-> imps, typeDef |-> [i \in 1..Len(imps) |-> imps[i].name]]

RECURSIVE resolvePropertyType(_)
resolvePropertyType(schema) ==
    IF Has(schema, "ref")
    THEN <<getModelPathAndName(extractRefName(schema.ref)).modelName>>
    ELSE IF Has(schema, "type") /\ schema.type = "array"
    THEN <<IF Has(schema, "items") /\ Has(schema.items, "ref")
           THEN getModelPathAndName(extractRefName(schema.items.ref)).modelName
           ELSE mapPrimitiveType(IF Has(schema, "items") /\ Has(schema.items, "type")
                                 THEN schema.items.type ELSE "any", NoFormat),
           "[]">>
    ELSE IF /\ Has(schema, "type") /\ schema.type = "object"
            /\ Has(schema, "additionalProperties")
            /\ (schema.additionalProperties.typeof = "object"
                \/ schema.additionalProperties.flag)
    THEN <<"Record<string, ">>
         \o (IF schema.additionalProperties.typeof = "object"
             THEN resolvePropertyType(schema.additionalProperties.schema)
             ELSE <<"any">>)
         \o <<">">>
    ELSE <<mapPrimitiveType(IF Has(schema, "type") THEN schema.type ELSE "any",
                            IF Has(schema, "format") THEN schema.format ELSE NoFormat)>>

\* collectProperties line 471
IsOptionalRequiredOnly(isRequired, isNullable) == ~isRequired
IsOptional(isRequired, isNullable) == ~isRequired \/ isNullable

\* collectProperties: one property per entry of definition.properties
PropertyOf(definition, p) ==
    LET isRequired == Has(definition, "required") /\ p.name \in Range(definition.required)
        isNullable == Has(p.schema, "nullable") /\ p.schema.nullable
    IN [propertyName |-> sanitizePropertyName(p.name),
        type |-> resolvePropertyType(p.schema),
        isOptional |-> IsOptional(isRequired, isNullable)]

\* collectProperties: the import a property adds, if any
PropertyImports(p) ==
    IF Has(p.schema, "ref") THEN <<ImportOf(extractRefName(p.schema.ref))>>
    ELSE IF Has(p.schema, "items") /\ Has(p.schema.items, "ref")
    THEN <<ImportOf(extractRefName(p.schema.items.ref))>>
    ELSE <<>>

\* collectProperties lines 467-468: resolvePropertyType reads schema.$ref of
\* a property whose schema is null, a TypeError
CollectThrows(definition) ==
    /\ Has(definition, "properties")
    /\ \E i \in 1..Len(definition.properties) :
          Has(definition.properties[i].schema, "null")

collectProperties(definition) ==
    IF ~Has(definition, "properties") THEN [properties |-> <<>>, imports |-> <<>>]
    ELSE LET ps == definition.properties
         IN [properties |-> [i \in 1..Len(ps) |-> PropertyOf(definition, ps[i])],
             imports |-> Flatten([i \in 1..Len(ps) |-> PropertyImports(ps[i])])]

\* BaseGenerator.addImportStatements: no self-import, first occurrence only
addImportStatements(imports, currentName) ==
    LET keep(i) == /\ imports[i].name # currentName
                   /\ \A j \in 1..(i - 1) : imports[j] # imports[i]
        idx == {i \in 1..Len(imports) : keep(i)}
        RECURSIVE Pick(_)
        Pick(i) == IF i > Len(imports) THEN <<>>
                   ELSE (IF i \in idx THEN <<imports[i]>> ELSE <<>>) \o Pick(i + 1)
    IN Pick(1)

\* the text of one member line: name, "?" when optional, ": type;"
MemberLine(prop) ==
    [name |-> prop.propertyName,
     mark |-> IF prop.isOptional THEN "?" ELSE "",
     type |-> prop.type]

\* generateInterfaceDefinition
generateInterfaceDefinition(modelName, properties) ==
    [kind |-> "interface", name |-> modelName, base |-> <<>>,
     members |-> [i \in 1..Len(properties) |-> MemberLine(properties[i])]]

\* generateTypeDefinition: an alias without properties, else base & { ... }
generateTypeDefinition(modelName, properties, baseType) ==
    IF properties = <<>>
    THEN [kind |-> "alias", name |-> modelName, base |-> baseType, members |-> <<>>]
    ELSE [kind |-> "intersection", name |-> modelName, base |-> baseType,
          members |-> [i \in 1..Len(properties) |-> MemberLine(properties[i])]]

\* buildOutput lines 366-368
InheritanceOf(definition) ==
    IF Has(definition, "allOf") THEN processInheritance(definition)
    ELSE [imports |-> <<>>, typeDef |-> <<>>]

\* buildOutput line 374: the reference requested for each parent import
ParentRefs(definition) ==
    LET imps == InheritanceOf(definition).imports
    IN [i \in 1..Len(imps) |-> Name(imps[i].name)]

\* buildOutput lines 379-414: the record for a model whose parents are done;
\* "of" notes the reference the record was built for
OutputRecord(dict, modelRef) ==
    LET pn == getModelPathAndName(modelRef)
        definition == dict[modelRef]
        inheritance == InheritanceOf(definition)
        own == collectProperties(definition)
        imports == inheritance.imports \o own.imports
        declaration ==
            IF Has(definition, "allOf")
            THEN generateTypeDefinition(pn.modelName, own.properties, inheritance.typeDef)
            ELSE generateInterfaceDefinition(pn.modelName, own.properties)
    IN [content |-> [imports |-> addImportStatements(imports, pn.modelName),
                     declaration |-> declaration],
        path |-> buildFilePath(API_OUTPUT_PATH, "dto",
                               createCorrectPath(pn.modelPath), pn.modelName),
        filename |-> pn.modelName,
        of |-> modelRef]

(***************************************************************************)
(* Documents for the endpoint emitters.  A path is the sequence of its     *)
(* characters; a parameter name, like a property name, the sequence of the *)
(* pieces sanitizePropertyName tells apart.                                *)
(***************************************************************************)
LoginPath == <<"/", "a", "u", "t", "h", "/", "L", "o", "g", "i", "n">>

\* the legacy document of the Login scenario
DocLogin ==
    [openapi |-> FALSE,
     paths |-> <<
        [path |-> LoginPath,
         item |-> [post |-> [parameters |-> <<
                                [name |-> <<"body">>, in |-> "body", required |-> TRUE,
                                 schema |-> LegacyRef(Name("LoginRequest"))]>>,
                             responses |-> <<
                                [key |-> "200",
                                 schema |-> LegacyRef(Name("LoginResponse"))]>>]]]>>,
     definitions |->
        (Name("LoginRequest") :>
            [type |-> "object",
             required |-> <<<<"username">>, <<"password">>>>,
             properties |-> <<Prop(<<"username">>, StringSchema),
                              Prop(<<"password">>, StringSchema)>>]
         @@ Name("LoginResponse") :>
            [type |-> "object",
             properties |-> <<Prop(<<"token">>, StringSchema)>>])]

\* legacy dialect: a read operation with a header parameter only and the
\* "default" response declared before "200"; a write operation without a
\* body; a put operation; a read operation with path, query and header
\* parameters and a response without schema; a write operation whose body
\* model has a dotted property name
DocWrapLegacy ==
    [openapi |-> FALSE,
     basePath |-> <<"/", "v">>,
     paths |-> <<
        [path |-> <<"/">>,
         item |-> [get |-> [parameters |-> <<[name |-> <<"h">>, in |-> "header",
                                               type |-> "string"]>>,
                            responses |-> <<
                               [key |-> "default", schema |-> LegacyRef(Name("Err"))],
                               [key |-> "200", schema |-> LegacyRef(Name("A"))]>>],
                   post |-> [responses |-> <<[key |-> "204"]>>],
                   put |-> [parameters |-> <<[name |-> <<"m">>, in |-> "body",
                                               schema |-> LegacyRef(Name("M"))]>>,
                            responses |-> <<[key |-> "204"]>>]]],
        [path |-> <<"/", "u">>,
         item |-> [parameters |-> <<[name |-> <<"i", ".", "d">>, in |-> "path",
                                     required |-> TRUE, type |-> "integer"]>>,
                   get |-> [parameters |-> <<
                               [name |-> <<"q">>, in |-> "query", type |-> "string"],
                               [name |-> <<"h">>, in |-> "header", type |-> "string"]>>,
                            responses |-> <<[key |-> "200"]>>],
                   post |-> [parameters |-> <<
                                [name |-> <<"t">>, in |-> "header", type |-> "string"],
                                [name |-> <<"m">>, in |-> "body",
                                 schema |-> LegacyRef(Name("M"))]>>,
                             responses |-> <<
                                [key |-> "200", schema |-> StringSchema]>>]]]>>,
     definitions |->
        (Name("A") :> [type |-> "object",
                       properties |-> <<Prop(<<"n">>, [type |-> "integer"])>>]
         @@ Name("Err") :> [type |-> "object",
                            properties |-> <<Prop(<<"e">>, StringSchema)>>]
         @@ Name("M") :> [type |-> "object",
                          required |-> <<<<"s">>>>,
                          properties |-> <<Prop(<<"s">>, StringSchema),
                                           Prop(<<"a", ".", "b">>, StringSchema)>>])]

\* current dialect: a first response with an empty content map, a response
\* with two media types, an inline body, a body reference without dictionary
\* entry, a write operation without content in its only response, a delete
\* operation
DocWrapCurrent ==
    [openapi |-> TRUE,
     servers |-> <<[url |-> <<"/", "v">>]>>,
     paths |-> <<
        [path |-> <<"/">>,
         item |-> [get |-> [responses |-> <<
                               [key |-> "204", content |-> <<>>],
                               [key |-> "404",
                                content |-> <<[schema |-> CurrentRef(Name("X"))]>>]>>],
                   post |-> [requestBody |->
                                [content |-> <<[schema |-> [type |-> "object"]]>>],
                             responses |-> <<
                                [key |-> "200",
                                 content |-> <<
                                    [schema |-> CurrentRef(QName("Ns", "Y"))],
                                    [schema |-> CurrentRef(Name("X"))]>>]>>]]],
        [path |-> <<"/", "u">>,
         item |-> [get |-> [parameters |-> <<
                               [name |-> <<"q">>, in |-> "query", required |-> TRUE,
                                schema |-> [type |-> "string", format |-> "binary"]],
                               [name |-> <<"r">>, in |-> "query"]>>,
                            responses |-> <<
                               [key |-> "200",
                                content |-> <<[schema |-> [type |-> "integer"]]>>]>>],
                   post |-> [requestBody |->
                                [content |-> <<
                                    [schema |-> StringSchema],
                                    [schema |-> CurrentRef(Name("Missing"))]>>],
                             responses |-> <<[key |-> "204"]>>],
                   delete |-> [responses |-> <<
                                [key |-> "200",
                                 content |-> <<[schema |-> CurrentRef(Name("X"))]>>]>>]]]>>,
     components |-> [schemas |->
        (Name("X") :> [type |-> "object",
                       properties |-> <<Prop(<<"x">>, StringSchema)>>]
         @@ QName("Ns", "Y") :> [type |-> "object",
                                 properties |-> <<Prop(<<"y">>, CurrentRef(Name("X")))>>])]]

\* legacy dialect: responses whose type names hold the token Stream, alone,
\* inside a longer name and in a namespace-qualified name, next to a name
\* that holds it in lower case only; write operations without a body whose
\* response is a model
DocStream ==
    [openapi |-> FALSE,
     basePath |-> <<"/", "v">>,
     paths |-> <<
        [path |-> <<"/">>,
         item |-> [get |-> [responses |-> <<
                               [key |-> "200",
                                schema |-> LegacyRef(Name("FileStream"))]>>],
                   post |-> [responses |-> <<
                                [key |-> "200",
                                 schema |-> LegacyRef(QName("IO", "Stream"))]>>]]],
        [path |-> <<"/", "u">>,
         item |-> [get |-> [responses |-> <<
                               [key |-> "200",
                                schema |-> LegacyRef(Name("Upstream"))]>>],
                   post |-> [responses |-> <<
                                [key |-> "200",
                                 schema |-> LegacyRef(QName("Ns", "Y"))]>>]]]>>,
     definitions |->
        (Name("Upstream") :> [type |-> "object",
                              properties |-> <<Prop(<<"u">>, StringSchema)>>]
         @@ QName("Ns", "Y") :> [type |-> "object",
                                 properties |-> <<Prop(<<"y">>, StringSchema)>>])]

WrapDocuments == {DocLogin, DocWrapLegacy, DocWrapCurrent, DocStream, DocLegacy, DocCurrent}

(***************************************************************************)
(* builder/generators: GETRequestGenerator and POSTRequestGenerator.  A    *)
(* response type is the sequence of the "."-separated parts of its text;   *)
(* undefined is the empty sequence.                                        *)
(***************************************************************************)
\* String.prototype.split on a sequence of characters
RECURSIVE Split(_, _)
Split(s, sep) ==
    IF \A i \in 1..Len(s) : s[i] # sep THEN <<s>>
    ELSE LET i == CHOOSE k \in 1..Len(s) :
                      s[k] = sep /\ \A j \in 1..(k - 1) : s[j] # sep
         IN <<SubSeq(s, 1, i - 1)>> \o Split(SubSeq(s, i + 1, Len(s)), sep)

\* the text of a sequence of characters, for the path segments used here
TextOf(chars) ==
    CASE chars = <<>> -> ""
      [] chars = <<"u">> -> "u"
      [] chars = <<"v">> -> "v"
      [] chars = <<"a", "u", "t", "h">> -> "auth"
      [] chars = <<"L", "o", "g", "i", "n">> -> "Login"

\* a path or base path cut at "/", as getModelPathAndName(path, "/") and
\* substring(lastIndexOf("/") + 1) cut it
PathSegments(path) ==
    LET parts == Split(path, "/") IN [i \in 1..Len(parts) |-> TextOf(parts[i])]

isOpenApi3(spec) == spec.openapi

getApiBasePath(api) ==
    IF api.openapi /\ Has(api, "servers") /\ api.servers # <<>> THEN api.servers[1].url
    ELSE IF Has(api, "basePath") THEN api.basePath
    ELSE <<>>

getDefinitions(spec) ==
    IF isOpenApi3(spec)
    THEN (IF Has(spec, "components") THEN spec.components.schemas ELSE <<>>)
    ELSE (IF Has(spec, "definitions") THEN spec.definitions ELSE <<>>)

isPrimitiveType(type) ==
    /\ Len(type) = 1
    /\ type[1] \in {"string", "number", "boolean", "any", "void", "Object", "Array"}

\* type.charAt(0).toUpperCase() + type.slice(1)
Capitalize(type) ==
    CASE type = "string" -> "String"
      [] type = "number" -> "Number"
      [] type = "integer" -> "Integer"
      [] type = "boolean" -> "Boolean"
      [] type = "object" -> "Object"
      [] type = "array" -> "Array"
      [] OTHER -> type

\* the schema of a media type or response, undefined when it has none
SchemaOf(holder) == IF Has(holder, "schema") THEN <<holder.schema>> ELSE <<>>

normalizeSchemaType(schema) ==
    IF schema = <<>> THEN <<"void">>
    ELSE IF Has(schema[1], "ref") THEN Last(schema[1].ref)
    ELSE IF Has(schema[1], "type") THEN <<Capitalize(schema[1].type)>>
    ELSE <<"void">>

\* String.prototype.includes("Stream") on one part of a type name
IncludesStream(part) == part \in {"Stream", "FileStream", "StreamContent"}

isPdfResponse(type) == \E i \in 1..Len(type) : IncludesStream(type[i])

\* extractResponseTypes: what one response pushes
ResponseTypesOf(spec, resp) ==
    IF isOpenApi3(spec) /\ Has(resp, "content")
    THEN [i \in 1..Len(resp.content) |-> normalizeSchemaType(SchemaOf(resp.content[i]))]
    ELSE IF Has(resp, "schema") THEN <<normalizeSchemaType(<<resp.schema>>)>>
    ELSE <<<<"void">>>>

extractResponseTypes(spec, operation) ==
    LET rs == ObjectValues(operation.responses)
    IN Flatten([i \in 1..Len(rs) |-> ResponseTypesOf(spec, rs[i])])

\* responseType[0]
FirstResponseType(endpoint) ==
    IF endpoint.responseType = <<>> THEN <<>> ELSE endpoint.responseType[1]

\* respType && respType !== "void" && !this.isPrimitiveType(respType)
IsModelType(respType) ==
    respType # <<>> /\ respType # <<"void">> /\ ~isPrimitiveType(respType)

convertParameter(spec, param) ==
    LET schema == IF Has(param, "schema") THEN param.schema ELSE [type |-> "string"]
    IN [name |-> param.name,
        type |-> IF isOpenApi3(spec)
                 THEN [typeof |-> "object",
                       type |-> IF Has(schema, "type") THEN schema.type ELSE "string",
                       format |-> IF Has(schema, "format") THEN schema.format ELSE NoFormat]
                 ELSE [typeof |-> "string",
                       type |-> IF Has(param, "type") THEN param.type ELSE "string",
                       format |-> NoFormat],
        isOptional |-> ~(Has(param, "required") /\ param.required),
        in |-> param.in]

extractParameters(spec, pathItem, operation) ==
    LET parameters == (IF Has(pathItem, "parameters") THEN pathItem.parameters ELSE <<>>)
                      \o (IF Has(operation, "parameters") THEN operation.parameters
                          ELSE <<>>)
    IN [i \in 1..Len(parameters) |-> convertParameter(spec, parameters[i])]

getParameterType(paramType) == mapPrimitiveType(paramType.type, paramType.format)

\* the base class import and the file of a wrapper
BaseImportOf(isPdf) ==
    LET baseImport == IF isPdf THEN "PdfWebServiceRequest" ELSE "JsonWebServiceRequest"
    IN [name |-> baseImport, path |-> <<"data-access", "data-service", <<>>, baseImport>>]

\* path.join drops the empty segments
RequestFilePath(basePath, epPath, className) ==
    LET apiName == Last(PathSegments(basePath))
        dir == <<CorrectSegment(apiName)>> \o createCorrectPath(epPath)
    IN buildFilePath(API_OUTPUT_PATH, "request",
                     SelectSeq(dir, LAMBDA segment : segment # ""),
                     <<className, "WebServiceRequest">>)

\* regexFilter(path, pathPattern) thrown or returned, for the entries that
\* define the method
MethodEntries(spec, method) == SelectSeq(spec.paths, LAMBDA e : Has(e.item, method))

ResolveThrows(spec, method, pathPattern) ==
    LET es == MethodEntries(spec, method)
    IN es # <<>> /\ regexFilter(es[1].path, pathPattern).threw

MatchedEntries(spec, method, pathPattern) ==
    SelectSeq(MethodEntries(spec, method),
              LAMBDA e : regexFilter(e.path, pathPattern).value)

\* GETRequestGenerator.resolveEntities, for a pattern new RegExp accepts
GetEndpoints(spec, pathPattern) ==
    LET es == MatchedEntries(spec, "get", pathPattern)
    IN [i \in 1..Len(es) |->
          [path |-> es[i].path, method |-> "get",
           parameters |-> extractParameters(spec, es[i].item, es[i].item.get),
           responseType |-> extractResponseTypes(spec, es[i].item.get)]]

\* GETRequestGenerator.generateImports and the two POST variants of it
ResponseImports(respType) ==
    IF IsModelType(respType) THEN <<ImportOf(respType)>> ELSE <<>>

generateImports(endpoint, isPdf) ==
    <<BaseImportOf(isPdf)>> \o ResponseImports(FirstResponseType(endpoint))

\* param.in !== "query" && param.in !== "path" skips the parameter
UrlParameters(endpoint) ==
    SelectSeq(endpoint.parameters, LAMBDA param : param.in \in {"query", "path"})

\* the guard of lines 114, 337 and 362
NeedsQueryParams(endpoint) == Len(endpoint.parameters) # 0

generateQueryParamsInterface(endpoint, className) ==
    LET ps == UrlParameters(endpoint)
    IN [name |-> <<className, "QueryParams">>,
        members |-> [i \in 1..Len(ps) |->
                        [name |-> sanitizePropertyName(ps[i].name),
                         mark |-> IF ps[i].isOptional THEN "?" ELSE "",
                         type |-> <<getParameterType(ps[i].type)>>]]]

generateSetupUrlMethod(endpoint) ==
    LET ps == UrlParameters(endpoint)
    IN [name |-> "setupURL",
        statements |-> [i \in 1..Len(ps) |->
                           [key |-> ps[i].name,
                            chain |-> IF ps[i].isOptional THEN "?" ELSE "",
                            read |-> sanitizePropertyName(ps[i].name)]]]

\* the extends clause of generateRequestClass and generateWithPayloadClass
LeafBaseClassJsonOnly(respType, isPdf) ==
    [base |-> "JsonWebServiceRequest",
     generic |-> <<IF IsModelType(respType)
                   THEN <<getModelPathAndName(respType).modelName>>
                   ELSE <<"any">>>>]
LeafBaseClass(respType, isPdf) ==
    IF isPdf THEN [base |-> "PdfWebServiceRequest", generic |-> <<>>]
    ELSE [base |-> "JsonWebServiceRequest",
          generic |-> <<IF IsModelType(respType)
                        THEN <<getModelPathAndName(respType).modelName>>
                        ELSE <<"any">>>>]

\* the extends clause of buildSimpleEndpoint
SimpleBaseClass(respType, isPdf) ==
    IF isPdf THEN [base |-> "PdfWebServiceRequest", generic |-> <<>>]
    ELSE [base |-> "JsonWebServiceRequest",
          generic |-> <<IF respType # <<>> THEN respType ELSE <<"any">>>>]

generateRequestClass(endpoint, className, basePath, isPdf) ==
    [name |-> <<className, "WebServiceRequest">>,
     extends |-> LeafBaseClass(FirstResponseType(endpoint), isPdf),
     properties |-> IF NeedsQueryParams(endpoint)
                    THEN <<[name |-> "queryParams", type |-> <<className, "QueryParams">>]>>
                    ELSE <<>>,
     super |-> [method |-> "GET", url |-> <<basePath, endpoint.path>>],
     methods |-> IF NeedsQueryParams(endpoint)
                 THEN <<generateSetupUrlMethod(endpoint)>> ELSE <<>>]

\* GETRequestGenerator.buildOutput; "of", "method" and "responseType" note
\* the endpoint the record is for and its responseType[0]
GetBuildOutput(endpoint, basePath) ==
    LET pn == getModelPathAndName(PathSegments(endpoint.path))
        className == pn.modelName
        isPdf == isPdfResponse(FirstResponseType(endpoint))
    IN [content |->
           [imports |-> addImportStatements(generateImports(endpoint, isPdf), className),
            shapes |-> IF NeedsQueryParams(endpoint)
                       THEN <<generateQueryParamsInterface(endpoint, className)>>
                       ELSE <<>>,
            class |-> generateRequestClass(endpoint, className, basePath, isPdf)],
        path |-> RequestFilePath(basePath, pn.modelPath, className),
        filename |-> <<className, "WebServiceRequest">>,
        of |-> endpoint.path, method |-> "get",
        responseType |-> FirstResponseType(endpoint)]

\* GETRequestGenerator.generate for one pattern
GetGenerate(spec, pathPattern) ==
    LET es == GetEndpoints(spec, pathPattern)
    IN [i \in 1..Len(es) |-> GetBuildOutput(es[i], getApiBasePath(spec))]

\* lines 139-150 alone: the body parameters of the legacy dialect left out
extractRequestBodyTypeCurrentOnly(spec, operation) ==
    LET medias == IF isOpenApi3(spec) /\ Has(operation, "requestBody")
                  THEN SelectSeq(operation.requestBody.content,
                                 LAMBDA media : Has(media, "schema")
                                                /\ Has(media.schema, "ref"))
                  ELSE <<>>
    IN IF medias # <<>> THEN Last(medias[1].schema.ref) ELSE <<>>

\* POSTRequestGenerator.extractRequestBodyType: the first $ref among the
\* media types of the body, or among the body parameters of the operation
extractRequestBodyType(spec, operation) ==
    LET medias == IF isOpenApi3(spec) /\ Has(operation, "requestBody")
                  THEN SelectSeq(operation.requestBody.content,
                                 LAMBDA media : Has(media, "schema")
                                                /\ Has(media.schema, "ref"))
                  ELSE <<>>
        params == IF ~isOpenApi3(spec) /\ Has(operation, "parameters")
                  THEN SelectSeq(operation.parameters,
                                 LAMBDA param : /\ param.in = "body"
                                                /\ Has(param, "schema")
                                                /\ Has(param.schema, "ref"))
                  ELSE <<>>
    IN IF medias # <<>> THEN Last(medias[1].schema.ref)
       ELSE IF params # <<>> THEN Last(params[1].schema.ref)
       ELSE <<>>

\* POSTRequestGenerator.resolveEntities, for a pattern new RegExp accepts
PostEndpoints(spec, pathPattern) ==
    LET es == MatchedEntries(spec, "post", pathPattern)
    IN [i \in 1..Len(es) |->
          [path |-> es[i].path, method |-> "post",
           parameters |-> <<>>,
           responseType |-> extractResponseTypes(spec, es[i].item.post),
           requestBody |-> extractRequestBodyType(spec, es[i].item.post)]]

generateImportsWithPayload(endpoint, isPdf) ==
    LET respType == FirstResponseType(endpoint)
        reqName == getModelPathAndName(endpoint.requestBody).modelName
    IN <<BaseImportOf(isPdf), ImportOf(endpoint.requestBody)>>
       \o (IF IsModelType(respType) /\ getModelPathAndName(respType).modelName # reqName
           THEN <<ImportOf(respType)>> ELSE <<>>)

\* the name the copy statement reads from this.data
PayloadField(propName) == propName

\* generateSetupBodyMethod: one statement per key of schema.properties
generateSetupBodyMethod(spec, requestBodyType) ==
    LET defs == getDefinitions(spec)
        ps == IF requestBodyType \in DOMAIN defs /\ Has(defs[requestBodyType], "properties")
              THEN defs[requestBodyType].properties ELSE <<>>
    IN [name |-> "setupBody",
        statements |-> [i \in 1..Len(ps) |->
                           [key |-> ps[i].name, read |-> PayloadField(ps[i].name)]]]

generateWithPayloadClass(spec, endpoint, className, basePath, isPdf) ==
    [name |-> <<className, "WebServiceRequest">>,
     extends |-> LeafBaseClass(FirstResponseType(endpoint), isPdf),
     properties |-> <<[name |-> "data",
                       type |-> <<getModelPathAndName(endpoint.requestBody).modelName>>]>>,
     super |-> [method |-> "POST", url |-> <<basePath, endpoint.path>>],
     methods |-> <<generateSetupBodyMethod(spec, endpoint.requestBody)>>]

buildEndpointWithPayload(spec, endpoint, basePath) ==
    LET pn == getModelPathAndName(PathSegments(endpoint.path))
        className == pn.modelName
        isPdf == isPdfResponse(FirstResponseType(endpoint))
    IN [content |->
           [imports |-> addImportStatements(generateImportsWithPayload(endpoint, isPdf),
                                            className),
            shapes |-> <<>>,
            class |-> generateWithPayloadClass(spec, endpoint, className, basePath, isPdf)],
        path |-> RequestFilePath(basePath, pn.modelPath, className),
        filename |-> <<className, "WebServiceRequest">>,
        of |-> endpoint.path, method |-> "post",
        responseType |-> FirstResponseType(endpoint)]

\* the hook buildSimpleEndpoint always emits, with nothing to copy
NoSetupBody == <<>>
EmptySetupBody == <<[name |-> "setupBody", statements |-> <<>>]>>

buildSimpleEndpoint(endpoint, basePath) ==
    LET pn == getModelPathAndName(PathSegments(endpoint.path))
        className == pn.modelName
        isPdf == isPdfResponse(FirstResponseType(endpoint))
    IN [content |->
           [imports |-> <<BaseImportOf(isPdf)>>,
            shapes |-> <<>>,
            class |-> [name |-> <<className, "WebServiceRequest">>,
                       extends |-> SimpleBaseClass(FirstResponseType(endpoint), isPdf),
                       properties |-> <<>>,
                       super |-> [method |-> "POST", url |-> <<basePath, endpoint.path>>],
                       methods |-> EmptySetupBody]],
        path |-> RequestFilePath(basePath, pn.modelPath, className),
        filename |-> <<className, "WebServiceRequest">>,
        of |-> endpoint.path, method |-> "post",
        responseType |-> FirstResponseType(endpoint)]

\* POSTRequestGenerator.buildOutput
PostBuildOutput(spec, endpoint, basePath) ==
    IF endpoint.requestBody # <<>>
    THEN buildEndpointWithPayload(spec, endpoint, basePath)
    ELSE buildSimpleEndpoint(endpoint, basePath)

\* POSTRequestGenerator.generate for one pattern
PostGenerate(spec, pathPattern) ==
    LET es == PostEndpoints(spec, pathPattern)
    IN [i \in 1..Len(es) |-> PostBuildOutput(spec, es[i], getApiBasePath(spec))]

(***************************************************************************)
(* builder/CodeBuilder.ts.  A builder is [indentString, indentLevel,       *)
(* content]: indentString is the number of spaces of one level, content    *)
(* the sequence of its lines, a line [indent |-> spaces, text |-> pieces]. *)
(***************************************************************************)
\* setDefaultIndentLevel: Math.max(1, size)
setDefaultIndentLevel(size) == IF size < 1 THEN 1 ELSE size

\* constructor: indentSize ?? CodeBuilder.defaultIndentSize; indentSize is
\* <<>> when the argument is left out
NewCodeBuilder(indentSize, default) ==
    [indentString |-> IF indentSize = <<>> THEN default ELSE indentSize[1],
     indentLevel |-> 0,
     content |-> <<>>]

\* indentString.repeat(indentLevel) + line + "\n"
LineOf(b, line) == [indent |-> b.indentString * b.indentLevel, text |-> line]

appendLine(b, line) == [b EXCEPT !.content = Append(@, LineOf(b, line))]

RECURSIVE appendLines(_, _)
appendLines(b, lines) ==
    IF lines = <<>> THEN b ELSE appendLines(appendLine(b, Head(lines)), Tail(lines))

appendEmptyLine(b) == [b EXCEPT !.content = Append(@, [indent |-> 0, text |-> <<>>])]

\* indentBy, setIndentLevel: Math.max(0, level)
NoClamp(level) == level
ClampIndent(level) == IF level < 0 THEN 0 ELSE level

indentBy(b, count) == [b EXCEPT !.indentLevel = ClampIndent(@ + count)]

setIndentLevel(b, level) == [b EXCEPT !.indentLevel = ClampIndent(level)]

reset(b) == [b EXCEPT !.indentLevel = 0, !.content = <<>>]

\* build(reset = true): the text, and the builder as the call leaves it
build(b, doReset) == [result |-> b.content, builder |-> IF doReset THEN reset(b) ELSE b]

\* createJSDocBlock with description lines and no tags
createJSDocBlock(b, description) ==
    appendLine(appendLines(appendLine(b, <<"/**">>),
                           [i \in 1..Len(description) |-> <<" * ">> \o description[i]]),
               <<" */">>)

createFileHeader(b) ==
    createJSDocBlock(b, <<<<"This code was generated using a code generation tool.">>,
                          <<>>,
                          <<"Manual changes to this file may cause unexpected behavior.">>,
                          <<"Manual changes will be overwritten if the code is regenerated.">>>>)

\* createImports for named imports with one name per path
createImports(b, imports) ==
    IF imports = <<>> THEN b
    ELSE appendEmptyLine(appendLines(b,
            [i \in 1..Len(imports) |->
                <<"import ", "{ ", imports[i].name, " }", " from ">> \o imports[i].path]))

\* createBlock whose bodyContent appends the lines of body
createBlock(b, openingLine, body) ==
    appendLine(indentBy(appendLines(indentBy(appendLine(b, openingLine \o <<" {">>), 1),
                                    body),
                        -1),
               <<"}">>)

\* createInterfaceProperty without description
InterfacePropertyLine(member) ==
    member.name \o <<member.mark, ": ">> \o member.type \o <<";">>

createInterface(b, name, description, members) ==
    createBlock(createJSDocBlock(b, <<description>>),
                <<"export ", "interface ", name>>,
                [i \in 1..Len(members) |-> InterfacePropertyLine(members[i])])

\* DTOGenerator.buildOutput lines 361 and 383-411 for a model without allOf:
\* new CodeBuilder(), header, imports, interface, build()
InterfaceText(record, default) ==
    LET b0 == NewCodeBuilder(<<>>, default)
        b1 == appendEmptyLine(createFileHeader(b0))
        b2 == createImports(b1, record.content.imports)
        d == record.content.declaration
        b3 == createInterface(b2, d.name,
                              <<"Interface representing a ", d.name, " model">>,
                              d.members)
    IN build(b3, TRUE).result

IdleFilter ==
    /\ fpc = "off" /\ fText = <<>> /\ fPattern = <<>>
    /\ fResult = [threw |-> FALSE, value |-> FALSE]

IdleDisc ==
    /\ doc = [openapi |-> FALSE, paths |-> <<>>]
    /\ dfilter = <<>> /\ dpc = "off" /\ dstack = <<>> /\ modelRefs = <<>>
    /\ processedRefs = {} /\ expansions = <<>> /\ dresult = <<>>

IdleEmit ==
    /\ definitions = <<>> /\ genList = <<>> /\ genArg = <<>> /\ frames = <<>>
    /\ dtoProcessedRefs = {} /\ processingStack = {} /\ dtoOutputs = <<>>
    /\ dropped = <<>> /\ warnings = <<>> /\ epc = "off"

IdleRun ==
    /\ config = [endpoints |-> <<>>] /\ rpc = "off" /\ epIdx = 0 /\ patIdx = 0
    /\ fetches = <<>> /\ attempted = {}
    /\ pending = [outputs |-> <<>>, next |-> 1] /\ writes = <<>>
    /\ successCount = 0 /\ errorCount = 0 /\ reported = <<>> /\ wlog = <<>>

IdleRepeat ==
    /\ dphase = "off"
    /\ dfirst = [filter |-> <<>>, threw |-> FALSE, names |-> {}]

IdlePattern ==
    /\ ppc = "off" /\ patternArg = <<>>
    /\ getOutputs = <<>> /\ postOutputs = <<>> /\ allOutputs = <<>>

\* CodeBuilder.defaultIndentSize = 2 (line 9), no call made, no instance
IdleBuilder ==
    /\ defaultIndentSize = 2
    /\ builder = NewCodeBuilder(<<>>, 2)
    /\ lastCall = "off"
    /\ returned = [kind |-> "this", text |-> <<>>]
    /\ accumulated = <<>>
    /\ instances = <<>>

(***************************************************************************)
(* regexFilter applied to a text and a pattern                             *)
(***************************************************************************)
InitFilter ==
    /\ fpc = "call"
    /\ fText \in SeqsUpTo(PathChars, MaxTextLen)
    /\ fPattern \in SeqsUpTo(PatChars, MaxPatLen)
    /\ fResult = [threw |-> FALSE, value |-> FALSE]
    /\ IdleDisc /\ IdleEmit /\ IdleRun /\ IdleRepeat /\ IdlePattern /\ IdleBuilder

CallRegexFilter ==
    /\ fpc = "call"
    /\ fResult' = regexFilter(fText, fPattern)
    /\ fpc' = "done"
    /\ UNCHANGED <<fText, fPattern, discVars, emitVars, runVars, repeatVars, patternVars, builderVars>>

NextFilter == CallRegexFilter

FilterSpec == InitFilter /\ [][NextFilter]_vars

(***************************************************************************)
(* APISpecParser.discoverModelPaths, one processSchema call per step; the  *)
(* stack holds the schemas the pending forEach loops still hand over       *)
(***************************************************************************)
InitDiscover ==
    /\ doc \in Documents
    /\ dfilter = <<>> /\ dpc = "idle" /\ dstack = <<>> /\ modelRefs = <<>>
    /\ processedRefs = {} /\ expansions = <<>> /\ dresult = <<>>
    /\ IdleFilter /\ IdleEmit /\ IdleRun /\ IdleRepeat /\ IdlePattern /\ IdleBuilder

\* lines 33-34: both sets are cleared when a call starts
KeepReferences(refs) == refs
ClearReferences(refs) == <<>>

\* discoverModelPaths(pattern) up to the first processSchema call; new RegExp
\* throws before any schema is visited
StartDiscovery(pattern) ==
    /\ dfilter' = pattern
    /\ modelRefs' = ClearReferences(modelRefs)
    /\ processedRefs' = {}
    /\ IF FilterThrows(doc, pattern)
       THEN dpc' = "threw" /\ dstack' = <<>>
       ELSE dpc' = "walking" /\ dstack' = RootSchemas(doc, pattern)

\* discoverModelPaths up to the first processSchema call
DiscoverModelPaths ==
    /\ dpc = "idle"
    /\ \E pattern \in SeqsUpTo(PatChars, MaxFilterLen) : StartDiscovery(pattern)
    /\ UNCHANGED <<doc, expansions, dresult, filterVars, emitVars, runVars, repeatVars, patternVars, builderVars>>

\* one call of processSchema
ProcessSchema ==
    /\ dpc = "walking" /\ dstack # <<>>
    /\ Len(expansions) < MaxExpansions
    /\ LET schema == Head(dstack)
           rest == Tail(dstack)
       IN IF Has(schema, "ref")
          THEN LET refPath == extractRefName(schema.ref)
               IN /\ modelRefs' = addModelReference(modelRefs, refPath)
                  /\ IF ShouldExpand(processedRefs, refPath)
                     THEN /\ processedRefs' = processedRefs \cup {refPath}
                          /\ expansions' = Append(expansions, refPath)
                          /\ dstack' = ReferencedSchemas(doc, refPath) \o rest
                     ELSE /\ dstack' = rest
                          /\ UNCHANGED <<processedRefs, expansions>>
          ELSE /\ dstack' = CompositeChildren(schema) \o rest
               /\ UNCHANGED <<modelRefs, processedRefs, expansions>>
    /\ UNCHANGED <<doc, dfilter, dpc, dresult, filterVars, emitVars, runVars, repeatVars, patternVars, builderVars>>

\* discoverModelPaths returns Array.from(modelRefs)
DiscoverReturn ==
    /\ dpc = "walking" /\ dstack = <<>>
    /\ dresult' = modelRefs
    /\ dpc' = "done"
    /\ UNCHANGED <<doc, dfilter, dstack, modelRefs, processedRefs, expansions,
                   filterVars, emitVars, runVars, repeatVars, patternVars, builderVars>>

NextDiscover == DiscoverModelPaths \/ ProcessSchema \/ DiscoverReturn

\* the walk is synchronous code: a step that can be taken is taken
DiscoverSpec == InitDiscover /\ [][NextDiscover]_vars /\ WF_vars(NextDiscover)

(***************************************************************************)
(* DTOGenerator.generate: flatMap of buildOutput over the list.  frames is *)
(* the call stack of buildOutput, the innermost call last.                 *)
(***************************************************************************)
InitEmit ==
    /\ definitions \in Dictionaries
    /\ genArg \in SeqsUpTo(DOMAIN definitions \cup {MissingName}, MaxList)
    /\ genList = genArg
    /\ frames = <<>> /\ dtoProcessedRefs = {} /\ processingStack = {}
    /\ dtoOutputs = <<>> /\ dropped = <<>> /\ warnings = <<>> /\ epc = "run"
    /\ IdleFilter /\ IdleDisc /\ IdleRun /\ IdleRepeat /\ IdlePattern /\ IdleBuilder

Top == frames[Len(frames)]

\* generate: the callback of flatMap calls buildOutput for the next name
CallBuildOutput ==
    /\ epc = "run" /\ frames = <<>> /\ genList # <<>>
    /\ frames' = <<[modelRef |-> Head(genList), pc |-> "enter", parents |-> <<>>]>>
    /\ genList' = Tail(genList)
    /\ UNCHANGED <<definitions, genArg, dtoProcessedRefs, processingStack, dtoOutputs,
                   dropped, warnings, epc, filterVars, discVars, runVars, repeatVars, patternVars, builderVars>>

\* buildOutput lines 341-347: a name that was emitted is not emitted again
IsProcessedNever(processed, modelRef) == FALSE
IsProcessed(processed, modelRef) == modelRef \in processed

\* generate lines 319-323: buildOutput returned null after the warning and
\* flatMap goes on with the names that are left
MissingDefinitionAborts(list) == <<>>
AfterMissingDefinition(list) == list

\* buildOutput lines 358-359: the name is marked in both sets at once
MarkProcessedLater(processed, modelRef) == processed
MarkProcessed(processed, modelRef) == processed \cup {modelRef}

\* buildOutput lines 415-417: the finally block
SkipFinally(stack, modelRef) == stack
FinallyDelete(stack, modelRef) == stack \ {modelRef}

\* buildOutput lines 341-359: the three early returns, or the marking
BuildOutputEnter ==
    /\ epc = "run" /\ frames # <<>> /\ Top.pc = "enter"
    /\ LET modelRef == Top.modelRef
       IN IF IsProcessed(dtoProcessedRefs, modelRef)
          THEN /\ frames' = Front(frames)
               /\ UNCHANGED <<dtoProcessedRefs, processingStack, warnings, genList>>
          ELSE IF modelRef \in processingStack
          THEN /\ dtoProcessedRefs' = dtoProcessedRefs \cup {modelRef}
               /\ frames' = Front(frames)
               /\ UNCHANGED <<processingStack, warnings, genList>>
          ELSE IF modelRef \notin DOMAIN definitions
          THEN /\ warnings' = Append(warnings, modelRef)
               /\ frames' = Front(frames)
               /\ genList' = AfterMissingDefinition(genList)
               /\ UNCHANGED <<dtoProcessedRefs, processingStack>>
          ELSE /\ processingStack' = processingStack \cup {modelRef}
               /\ dtoProcessedRefs' = MarkProcessed(dtoProcessedRefs, modelRef)
               /\ frames' = [frames EXCEPT ![Len(frames)] =
                                [modelRef |-> modelRef, pc |-> "parents",
                                 parents |-> ParentRefs(definitions[modelRef])]]
               /\ UNCHANGED <<warnings, genList>>
    /\ UNCHANGED <<definitions, genArg, dtoOutputs, dropped, epc,
                   filterVars, discVars, runVars, repeatVars, patternVars, builderVars>>

\* buildOutput lines 373-376: the nested call for the next parent
BuildOutputParent ==
    /\ epc = "run" /\ frames # <<>> /\ Top.pc = "parents" /\ Top.parents # <<>>
    /\ frames' = Append([frames EXCEPT ![Len(frames)].parents = Tail(Top.parents)],
                        [modelRef |-> Head(Top.parents), pc |-> "enter",
                         parents |-> <<>>])
    /\ UNCHANGED <<definitions, genArg, genList, dtoProcessedRefs, processingStack,
                   dtoOutputs, dropped, warnings, epc, filterVars, discVars, runVars, repeatVars, patternVars, builderVars>>

\* buildOutput lines 379-417: the record is returned and the finally block
\* runs; generate keeps the record of an outermost call, the loop over the
\* parents ignores the one returned to it
BuildOutputReturn ==
    /\ epc = "run" /\ frames # <<>> /\ Top.pc = "parents" /\ Top.parents = <<>>
    /\ ~CollectThrows(definitions[Top.modelRef])
    /\ LET output == OutputRecord(definitions, Top.modelRef)
       IN IF Len(frames) = 1
          THEN dtoOutputs' = Append(dtoOutputs, output) /\ UNCHANGED dropped
          ELSE dropped' = Append(dropped, output) /\ UNCHANGED dtoOutputs
    /\ processingStack' = FinallyDelete(processingStack, Top.modelRef)
    /\ frames' = Front(frames)
    /\ UNCHANGED <<definitions, genArg, genList, dtoProcessedRefs, warnings, epc,
                   filterVars, discVars, runVars, repeatVars, patternVars, builderVars>>

\* buildOutput lines 379 and 415-417: collectProperties throws, the finally
\* block runs and the exception leaves the call
BuildOutputThrow ==
    /\ epc = "run" /\ frames # <<>> /\ Top.pc = "parents" /\ Top.parents = <<>>
    /\ CollectThrows(definitions[Top.modelRef])
    /\ processingStack' = FinallyDelete(processingStack, Top.modelRef)
    /\ frames' = Front(frames)
    /\ epc' = "throwing"
    /\ UNCHANGED <<definitions, genArg, genList, dtoProcessedRefs, dtoOutputs, dropped,
                   warnings, filterVars, discVars, runVars, repeatVars, patternVars,
                   builderVars>>

\* buildOutput lines 373-376 and 415-417: the nested call for a parent threw;
\* the finally block of the caller runs and the exception leaves it too
BuildOutputUnwind ==
    /\ epc = "throwing" /\ frames # <<>>
    /\ processingStack' = FinallyDelete(processingStack, Top.modelRef)
    /\ frames' = Front(frames)
    /\ UNCHANGED <<definitions, genArg, genList, dtoProcessedRefs, dtoOutputs, dropped,
                   warnings, epc, filterVars, discVars, runVars, repeatVars, patternVars,
                   builderVars>>

\* generate lines 319-323: nothing catches, generate throws
GenerateDtoThrow ==
    /\ epc = "throwing" /\ frames = <<>>
    /\ epc' = "threw"
    /\ UNCHANGED <<definitions, genArg, genList, frames, dtoProcessedRefs,
                   processingStack, dtoOutputs, dropped, warnings,
                   filterVars, discVars, runVars, repeatVars, patternVars, builderVars>>

\* generate returns the flattened list
GenerateDtoReturn ==
    /\ epc = "run" /\ frames = <<>> /\ genList = <<>>
    /\ epc' = "done"
    /\ UNCHANGED <<definitions, genArg, genList, frames, dtoProcessedRefs,
                   processingStack, dtoOutputs, dropped, warnings,
                   filterVars, discVars, runVars, repeatVars, patternVars, builderVars>>

NextEmit ==
    \/ CallBuildOutput \/ BuildOutputEnter \/ BuildOutputParent
    \/ BuildOutputReturn \/ BuildOutputThrow \/ BuildOutputUnwind
    \/ GenerateDtoThrow \/ GenerateDtoReturn

EmitSpec == InitEmit /\ [][NextEmit]_vars /\ WF_vars(NextEmit)

(***************************************************************************)
(* OpenAPICodeGenerator.generate.  The collaborators decide, when called,  *)
(* whether they fail: fetchAPISpec, the generation of one path pattern     *)
(* (new RegExp on the pattern, the generators) and writeToFile.  fetches,  *)
(* attempted, writes, reported and wlog record the calls made.             *)
(***************************************************************************)
Endpoint(url, paths) == [url |-> url, paths |-> paths]

Configs ==
    {[endpoints |-> eps, options |-> [cleanOutputDir |-> c]] :
        eps \in {<<Endpoint("url1", <<"p1", "p2">>), Endpoint("url2", <<"p3">>)>>,
                 <<Endpoint("url1", <<"p1">>), Endpoint("url2", <<"p2", "p3">>)>>},
        c \in BOOLEAN}

\* the records one pattern's generators return: k of them
OutputsOf(ep, pat, k) ==
    [i \in 1..k |-> [path |-> <<ep, pat, i>>, content |-> "text"]]

InitRun ==
    /\ config \in Configs
    /\ rpc = "start" /\ epIdx = 0 /\ patIdx = 0
    /\ fetches = <<>> /\ attempted = {}
    /\ pending = [outputs |-> <<>>, next |-> 1] /\ writes = <<>>
    /\ successCount = 0 /\ errorCount = 0 /\ reported = <<>> /\ wlog = <<>>
    /\ IdleFilter /\ IdleDisc /\ IdleEmit /\ IdleRepeat /\ IdlePattern /\ IdleBuilder

\* generate lines 34-42: the catch around generateForEndpoint reports the
\* error and the loop goes on with the next endpoint
EndpointErrorPropagates(idx) == [rpc |-> "threw", epIdx |-> idx]
AfterEndpointError(idx) == [rpc |-> "endpoint", epIdx |-> idx + 1]

\* writeOutputs lines 190-195: the catch around writeToFile counts the
\* error and the loop goes on with the next record
WriteFailureAborts(p) == [p EXCEPT !.next = Len(p.outputs) + 1]
AfterWriteFailure(p) == [p EXCEPT !.next = @ + 1]

\* generate lines 30-32: cleanOutputDirectory may throw out of generate
Generate ==
    /\ rpc = "start"
    /\ \E cleanFails \in BOOLEAN :
          IF config.options.cleanOutputDir /\ cleanFails
          THEN rpc' = "threw" /\ UNCHANGED epIdx
          ELSE rpc' = "endpoint" /\ epIdx' = 1
    /\ UNCHANGED <<config, patIdx, fetches, attempted, pending, writes, successCount,
                   errorCount, reported, wlog, filterVars, discVars, emitVars, repeatVars, patternVars, builderVars>>

\* generateForEndpoint line 56: fetchAPISpec returns the document or throws
\* APISpecError(url), which generateForEndpoint rethrows as it is
FetchAPISpec ==
    /\ rpc = "endpoint" /\ epIdx <= Len(config.endpoints)
    /\ LET url == config.endpoints[epIdx].url
       IN \E ok \in BOOLEAN :
             /\ fetches' = Append(fetches, [ep |-> epIdx, url |-> url, ok |-> ok])
             /\ IF ok
                THEN /\ rpc' = "patterns" /\ patIdx' = 1
                     /\ UNCHANGED <<epIdx, reported>>
                ELSE /\ reported' = Append(reported,
                            [api |-> url, ep |-> epIdx,
                             error |-> [name |-> "APISpecError", url |-> url]])
                     /\ rpc' = AfterEndpointError(epIdx).rpc
                     /\ epIdx' = AfterEndpointError(epIdx).epIdx
                     /\ UNCHANGED patIdx
    /\ UNCHANGED <<config, attempted, pending, writes, successCount, errorCount,
                   wlog, filterVars, discVars, emitVars, repeatVars, patternVars, builderVars>>

\* generateForPathPattern lines 106-142 up to the call of writeOutputs; an
\* exception becomes GenerationError(pattern), which generateForEndpoint
\* wraps in an Error and throws on to generate
GenerateForPathPattern ==
    /\ rpc = "patterns" /\ patIdx <= Len(config.endpoints[epIdx].paths)
    /\ attempted' = attempted \cup {<<epIdx, patIdx>>}
    /\ LET url == config.endpoints[epIdx].url
           pathPattern == config.endpoints[epIdx].paths[patIdx]
       IN \E throws \in BOOLEAN, k \in 0..MaxOutputs :
             IF throws
             THEN /\ k = 0
                  /\ reported' = Append(reported,
                         [api |-> url, ep |-> epIdx,
                          error |-> [name |-> "Error",
                                     cause |-> [name |-> "GenerationError",
                                                context |-> pathPattern,
                                                pat |-> patIdx]]])
                  /\ rpc' = AfterEndpointError(epIdx).rpc
                  /\ epIdx' = AfterEndpointError(epIdx).epIdx
                  /\ UNCHANGED <<pending, successCount, errorCount>>
             ELSE /\ pending' = [outputs |-> OutputsOf(epIdx, patIdx, k), next |-> 1]
                  /\ successCount' = 0 /\ errorCount' = 0
                  /\ rpc' = "writing"
                  /\ UNCHANGED <<epIdx, reported>>
    /\ UNCHANGED <<config, patIdx, fetches, writes, wlog, filterVars, discVars, emitVars, repeatVars, patternVars, builderVars>>

\* writeOutputs lines 182-196: one iteration of the loop
WriteToFile ==
    /\ rpc = "writing" /\ pending.next <= Len(pending.outputs)
    /\ LET output == pending.outputs[pending.next]
       IN \E ok \in BOOLEAN :
             /\ writes' = Append(writes, [path |-> output.path, ok |-> ok])
             /\ IF ok
                THEN /\ successCount' = successCount + 1
                     /\ pending' = [pending EXCEPT !.next = @ + 1]
                     /\ UNCHANGED <<errorCount, reported>>
                ELSE /\ errorCount' = errorCount + 1
                     /\ reported' = Append(reported,
                            [api |-> config.endpoints[epIdx].url, ep |-> epIdx,
                             error |-> [name |-> "write", path |-> output.path]])
                     /\ pending' = AfterWriteFailure(pending)
                     /\ UNCHANGED successCount
    /\ UNCHANGED <<config, rpc, epIdx, patIdx, fetches, attempted, wlog,
                   filterVars, discVars, emitVars, repeatVars, patternVars, builderVars>>

\* writeOutputs lines 198-200 and the return into the loop over the patterns
WriteOutputsReturn ==
    /\ rpc = "writing" /\ pending.next > Len(pending.outputs)
    /\ wlog' = Append(wlog, [ep |-> epIdx, pat |-> patIdx, success |-> successCount,
                             errors |-> errorCount, total |-> Len(pending.outputs)])
    /\ patIdx' = patIdx + 1
    /\ rpc' = "patterns"
    /\ UNCHANGED <<config, epIdx, fetches, attempted, pending, writes, successCount,
                   errorCount, reported, filterVars, discVars, emitVars, repeatVars, patternVars, builderVars>>

\* generateForEndpoint line 63: every pattern done
GenerateForEndpointReturn ==
    /\ rpc = "patterns" /\ patIdx > Len(config.endpoints[epIdx].paths)
    /\ epIdx' = epIdx + 1
    /\ rpc' = "endpoint"
    /\ UNCHANGED <<config, patIdx, fetches, attempted, pending, writes, successCount,
                   errorCount, reported, wlog, filterVars, discVars, emitVars, repeatVars, patternVars, builderVars>>

\* generate returns after the last endpoint
GenerateReturn ==
    /\ rpc = "endpoint" /\ epIdx > Len(config.endpoints)
    /\ rpc' = "done"
    /\ UNCHANGED <<config, epIdx, patIdx, fetches, attempted, pending, writes,
                   successCount, errorCount, reported, wlog,
                   filterVars, discVars, emitVars, repeatVars, patternVars, builderVars>>

NextRun ==
    \/ Generate \/ FetchAPISpec \/ GenerateForPathPattern \/ WriteToFile
    \/ WriteOutputsReturn \/ GenerateForEndpointReturn \/ GenerateReturn

RunSpec == InitRun /\ [][NextRun]_vars /\ WF_vars(NextRun)

(***************************************************************************)
(* Repeated discoverModelPaths calls on one parser: a first call, possibly *)
(* a call with another filter, then the first filter again.  A parser may  *)
(* also be constructed anew on the document with its paths reordered.      *)
(***************************************************************************)
\* longest filter of a call made between the two calls that are compared
MaxRepeatLen == 1

RepeatFilters == SeqsUpTo(PatChars, MaxRepeatLen)

Reverse(s) == [i \in 1..Len(s) |-> s[Len(s) + 1 - i]]

\* what the call that just ended was given and gave
CallOutcome == [filter |-> dfilter, threw |-> dpc = "threw", names |-> Range(dresult)]

InitRediscover ==
    /\ doc \in Documents
    /\ dfilter = <<>> /\ dpc = "idle" /\ dstack = <<>> /\ modelRefs = <<>>
    /\ processedRefs = {} /\ expansions = <<>> /\ dresult = <<>>
    /\ dphase = "first"
    /\ dfirst = [filter |-> <<>>, threw |-> FALSE, names |-> {}]
    /\ IdleFilter /\ IdleEmit /\ IdleRun /\ IdlePattern /\ IdleBuilder

\* a call with any filter after the first call
DiscoverBetween ==
    /\ dpc \in {"done", "threw"} /\ dphase = "first"
    /\ \E pattern \in RepeatFilters : StartDiscovery(pattern)
    /\ dfirst' = CallOutcome
    /\ dphase' = "between"
    /\ expansions' = <<>>
    /\ UNCHANGED <<doc, dresult, filterVars, emitVars, runVars, patternVars, builderVars>>

\* the call with the filter of the first call
DiscoverSame ==
    /\ dpc \in {"done", "threw"} /\ dphase \in {"first", "between"}
    /\ StartDiscovery(IF dphase = "first" THEN dfilter ELSE dfirst.filter)
    /\ dfirst' = IF dphase = "first" THEN CallOutcome ELSE dfirst
    /\ dphase' = IF dphase = "first" THEN "again" ELSE "again after another"
    /\ expansions' = <<>>
    /\ UNCHANGED <<doc, dresult, filterVars, emitVars, runVars, patternVars, builderVars>>

\* new APISpecParser(apiSpec) on the document with the entries of paths in
\* the opposite order
NewParser ==
    /\ dpc \in {"done", "threw"} /\ dphase \in {"first", "between"}
    /\ doc' = [doc EXCEPT !.paths = Reverse(@)]
    /\ modelRefs' = <<>>
    /\ processedRefs' = {}
    /\ UNCHANGED <<dfilter, dpc, dstack, expansions, dresult, repeatVars,
                   filterVars, emitVars, runVars, patternVars, builderVars>>

NextRediscover ==
    \/ DiscoverModelPaths \/ ProcessSchema \/ DiscoverReturn
    \/ DiscoverBetween \/ DiscoverSame \/ NewParser

RediscoverSpec == InitRediscover /\ [][NextRediscover]_vars /\ WF_vars(NextRediscover)

(***************************************************************************)
(* OpenAPICodeGenerator.generateForPathPattern: discovery, the model       *)
(* emitter, the two endpoint emitters, then the records handed to          *)
(* writeOutputs.  The steps of the walker and of the model emitter are the *)
(* actions above.                                                          *)
(***************************************************************************)
PatternsFor(d) ==
    SeqsUpTo(PatChars, MaxFilterLen) \cup {d.paths[i].path : i \in 1..Len(d.paths)}

InitPattern ==
    /\ doc \in WrapDocuments
    /\ patternArg \in PatternsFor(doc)
    /\ ppc = "start"
    /\ getOutputs = <<>> /\ postOutputs = <<>> /\ allOutputs = <<>>
    /\ dfilter = <<>> /\ dpc = "off" /\ dstack = <<>> /\ modelRefs = <<>>
    /\ processedRefs = {} /\ expansions = <<>> /\ dresult = <<>>
    /\ IdleFilter /\ IdleEmit /\ IdleRun /\ IdleRepeat /\ IdleBuilder

\* lines 114 and 161-170: a new parser, discoverModelPaths(pathPattern)
DiscoverModels ==
    /\ ppc = "start"
    /\ StartDiscovery(patternArg)
    /\ ppc' = IF FilterThrows(doc, patternArg) THEN "threw" ELSE "discover"
    /\ UNCHANGED <<doc, expansions, dresult, patternArg, getOutputs, postOutputs,
                   allOutputs, filterVars, emitVars, runVars, repeatVars, builderVars>>

\* lines 108-111 and 117-121: a new DTOGenerator, generate(modelPaths)
GenerateDtos ==
    /\ ppc = "discover" /\ dpc = "done"
    /\ definitions' = getDefinitions(doc)
    /\ genArg' = dresult
    /\ genList' = dresult
    /\ epc' = "run"
    /\ ppc' = "dto"
    /\ UNCHANGED <<frames, dtoProcessedRefs, processingStack, dtoOutputs, dropped,
                   warnings, patternArg, getOutputs, postOutputs, allOutputs,
                   filterVars, discVars, runVars, repeatVars, builderVars>>

\* lines 125-129
GenerateGetRequests ==
    /\ ppc = "dto" /\ epc = "done"
    /\ IF ResolveThrows(doc, "get", patternArg)
       THEN ppc' = "threw" /\ UNCHANGED getOutputs
       ELSE ppc' = "get" /\ getOutputs' = GetGenerate(doc, patternArg)
    /\ UNCHANGED <<patternArg, postOutputs, allOutputs,
                   filterVars, discVars, emitVars, runVars, repeatVars, builderVars>>

\* lines 133-137
GeneratePostRequests ==
    /\ ppc = "get"
    /\ IF ResolveThrows(doc, "post", patternArg)
       THEN ppc' = "threw" /\ UNCHANGED postOutputs
       ELSE ppc' = "post" /\ postOutputs' = PostGenerate(doc, patternArg)
    /\ UNCHANGED <<patternArg, getOutputs, allOutputs,
                   filterVars, discVars, emitVars, runVars, repeatVars, builderVars>>

\* lines 141-142: the records handed to writeOutputs
WriteOutputs ==
    /\ ppc = "post"
    /\ allOutputs' = dtoOutputs \o getOutputs \o postOutputs
    /\ ppc' = "done"
    /\ UNCHANGED <<patternArg, getOutputs, postOutputs,
                   filterVars, discVars, emitVars, runVars, repeatVars, builderVars>>

NextPattern ==
    \/ DiscoverModels \/ ProcessSchema \/ DiscoverReturn \/ GenerateDtos
    \/ CallBuildOutput \/ BuildOutputEnter \/ BuildOutputParent \/ BuildOutputReturn
    \/ GenerateDtoReturn \/ GenerateGetRequests \/ GeneratePostRequests \/ WriteOutputs

PatternSpec == InitPattern /\ [][NextPattern]_vars /\ WF_vars(NextPattern)

(***************************************************************************)
(* One CodeBuilder instance and the calls made on it or on the class.      *)
(* lastCall names the last call and returned is what it returned: the      *)
(* builder itself (chaining, or nothing for the static call) or a text.    *)
(* accumulated notes the lines the calls since the last reset asked for.   *)
(***************************************************************************)
\* most lines the content of the builder holds
MaxLines == 3
\* deepest indentation level reached through indentBy and setIndentLevel
MaxIndent == 2

LineTexts == {<<"x">>}
IndentSizes == {<<>>, <<1>>, <<3>>}
DefaultSizes == {0, 1, 4}
IndentCounts == {-2, -1, 1}
IndentLevels == {-1, 0, MaxIndent}

This == [kind |-> "this", text |-> <<>>]

InitBuilder ==
    /\ defaultIndentSize = 2
    /\ builder = NewCodeBuilder(<<>>, 2)
    /\ lastCall = "constructor"
    /\ returned = This
    /\ accumulated = <<>>
    /\ instances = <<>>
    /\ IdleFilter /\ IdleDisc /\ IdleEmit /\ IdleRun /\ IdleRepeat /\ IdlePattern

SetDefaultIndentLevel ==
    /\ lastCall # "off"
    /\ \E size \in DefaultSizes : defaultIndentSize' = setDefaultIndentLevel(size)
    /\ lastCall' = "setDefaultIndentLevel"
    /\ returned' = This
    /\ UNCHANGED <<builder, accumulated, instances,
                   filterVars, discVars, emitVars, runVars, repeatVars, patternVars>>

Construct ==
    /\ lastCall # "off"
    /\ \E indentSize \in IndentSizes :
          builder' = NewCodeBuilder(indentSize, defaultIndentSize)
    /\ lastCall' = "constructor"
    /\ returned' = This
    /\ accumulated' = <<>>
    /\ UNCHANGED <<defaultIndentSize, instances,
                   filterVars, discVars, emitVars, runVars, repeatVars, patternVars>>

AppendLine ==
    /\ lastCall # "off" /\ Len(builder.content) < MaxLines
    /\ \E line \in LineTexts :
          /\ builder' = appendLine(builder, line)
          /\ accumulated' = Append(accumulated, LineOf(builder, line))
    /\ lastCall' = "appendLine"
    /\ returned' = This
    /\ UNCHANGED <<defaultIndentSize, instances,
                   filterVars, discVars, emitVars, runVars, repeatVars, patternVars>>

AppendEmptyLine ==
    /\ lastCall # "off" /\ Len(builder.content) < MaxLines
    /\ builder' = appendEmptyLine(builder)
    /\ accumulated' = Append(accumulated, [indent |-> 0, text |-> <<>>])
    /\ lastCall' = "appendEmptyLine"
    /\ returned' = This
    /\ UNCHANGED <<defaultIndentSize, instances,
                   filterVars, discVars, emitVars, runVars, repeatVars, patternVars>>

IndentBy ==
    /\ lastCall # "off"
    /\ \E count \in IndentCounts :
          /\ builder.indentLevel + count <= MaxIndent
          /\ builder' = indentBy(builder, count)
    /\ lastCall' = "indentBy"
    /\ returned' = This
    /\ UNCHANGED <<defaultIndentSize, accumulated, instances,
                   filterVars, discVars, emitVars, runVars, repeatVars, patternVars>>

SetIndentLevel ==
    /\ lastCall # "off"
    /\ \E level \in IndentLevels : builder' = setIndentLevel(builder, level)
    /\ lastCall' = "setIndentLevel"
    /\ returned' = This
    /\ UNCHANGED <<defaultIndentSize, accumulated, instances,
                   filterVars, discVars, emitVars, runVars, repeatVars, patternVars>>

\* createBlock with no bodyContent, or with one that appends one line
CreateBlock ==
    /\ lastCall # "off"
    /\ \E body \in SeqsUpTo(LineTexts, 1) :
          /\ Len(builder.content) + Len(body) + 2 <= MaxLines
          /\ builder' = createBlock(builder, <<"c">>, body)
          /\ accumulated' =
                accumulated
                \o <<LineOf(builder, <<"c", " {">>)>>
                \o [i \in 1..Len(body) |->
                       [indent |-> builder.indentString * (builder.indentLevel + 1),
                        text |-> body[i]]]
                \o <<LineOf(builder, <<"}">>)>>
    /\ lastCall' = "createBlock"
    /\ returned' = This
    /\ UNCHANGED <<defaultIndentSize, instances,
                   filterVars, discVars, emitVars, runVars, repeatVars, patternVars>>

\* build() and build(false)
Build ==
    /\ lastCall # "off"
    /\ \E doReset \in BOOLEAN :
          /\ builder' = build(builder, doReset).builder
          /\ returned' = [kind |-> "text", text |-> build(builder, doReset).result]
          /\ lastCall' = IF doReset THEN "build" ELSE "build(false)"
          /\ accumulated' = IF doReset THEN <<>> ELSE accumulated
    /\ UNCHANGED <<defaultIndentSize, instances,
                   filterVars, discVars, emitVars, runVars, repeatVars, patternVars>>

Reset ==
    /\ lastCall # "off"
    /\ builder' = reset(builder)
    /\ lastCall' = "reset"
    /\ returned' = This
    /\ accumulated' = <<>>
    /\ UNCHANGED <<defaultIndentSize, instances,
                   filterVars, discVars, emitVars, runVars, repeatVars, patternVars>>

NextBuilder ==
    \/ SetDefaultIndentLevel \/ Construct \/ AppendLine \/ AppendEmptyLine
    \/ IndentBy \/ SetIndentLevel \/ CreateBlock \/ Build \/ Reset

BuilderSpec == InitBuilder /\ [][NextBuilder]_vars

(***************************************************************************)
(* OpenAPICodeGenerator instances of one process.  The constructor sets    *)
(* the static default of CodeBuilder; a run emits a model through          *)
(* new CodeBuilder().                                                      *)
(***************************************************************************)
\* instances constructed in one process
MaxInstances == 2

\* options.indentation of a configuration
Indentations == {0, 1, 2, 4}

\* the model every instance emits
EmittedModel == OutputRecord(DictMutual, Name("A"))

InitInstances ==
    /\ instances \in [1..MaxInstances ->
                        {[indentation |-> n, state |-> "config", text |-> <<>>] :
                            n \in Indentations}]
    /\ defaultIndentSize = 2
    /\ builder = NewCodeBuilder(<<>>, 2)
    /\ lastCall = "off"
    /\ returned = This
    /\ accumulated = <<>>
    /\ IdleFilter /\ IdleDisc /\ IdleEmit /\ IdleRun /\ IdleRepeat /\ IdlePattern

\* new OpenAPICodeGenerator(config), lines 21-24
ConstructGenerator ==
    /\ \E g \in DOMAIN instances :
          /\ instances[g].state = "config"
          /\ defaultIndentSize' = setDefaultIndentLevel(instances[g].indentation)
          /\ instances' = [instances EXCEPT ![g].state = "constructed"]
    /\ UNCHANGED <<builder, lastCall, returned, accumulated,
                   filterVars, discVars, emitVars, runVars, repeatVars, patternVars>>

\* generate() of an instance: the model is emitted through new CodeBuilder()
RunGenerator ==
    /\ \E g \in DOMAIN instances :
          /\ instances[g].state = "constructed"
          /\ instances' = [instances EXCEPT
                              ![g].state = "done",
                              ![g].text = InterfaceText(EmittedModel, defaultIndentSize)]
    /\ UNCHANGED <<defaultIndentSize, builder, lastCall, returned, accumulated,
                   filterVars, discVars, emitVars, runVars, repeatVars, patternVars>>

NextInstances == ConstructGenerator \/ RunGenerator

InstanceSpec == InitInstances /\ [][NextInstances]_vars

(***************************************************************************)
(* Claims                                                                  *)
(***************************************************************************)
NoDuplicates(s) == \A i, j \in 1..Len(s) : s[i] = s[j] => i = j

\* the pattern, as a regular expression of its own, matches all of the text
FullMatch(pattern, text) ==
    /\ RegExpParses(pattern)
    /\ LET alts == SplitAlternatives(pattern)
       IN \E i \in 1..Len(alts) :
             (Len(text) + 1) \in AlternativeEnds(ParseAlternative(alts[i]), 1, text, {1})

\* the names a schema refers to without passing through a dictionary entry:
\* its $ref, or else array items, composition members, an object-valued
\* additionalProperties and property schemas
RECURSIVE SchemaRefs(_)
SchemaRefs(schema) ==
    IF Has(schema, "ref") THEN {extractRefName(schema.ref)}
    ELSE LET kids ==
                (IF Has(schema, "type") /\ schema.type = "array" /\ Has(schema, "items")
                 THEN <<schema.items>> ELSE <<>>)
                \o (IF Has(schema, "allOf") THEN schema.allOf ELSE <<>>)
                \o (IF Has(schema, "oneOf") THEN schema.oneOf ELSE <<>>)
                \o (IF Has(schema, "anyOf") THEN schema.anyOf ELSE <<>>)
                \o (IF Has(schema, "additionalProperties")
                       /\ schema.additionalProperties.typeof = "object"
                    THEN <<schema.additionalProperties.schema>> ELSE <<>>)
                \o (IF Has(schema, "properties")
                    THEN [i \in 1..Len(schema.properties) |-> schema.properties[i].schema]
                    ELSE <<>>)
         IN UNION {SchemaRefs(kids[i]) : i \in 1..Len(kids)}

RECURSIVE RefClosure(_, _)
RefClosure(d, S) ==
    LET dict == DictionaryOf(d)
        next == S \cup UNION {SchemaRefs(dict[n]) : n \in S \cap DOMAIN dict}
    IN IF next = S THEN S ELSE RefClosure(d, next)

\* the names reachable from the operations of the paths the filter fully
\* matches (every path when no filter is given)
ReachableNames(d, pattern) ==
    LET es == IF pattern = <<>> THEN d.paths
              ELSE SelectSeq(d.paths, LAMBDA e : FullMatch(pattern, e.path))
        roots == Flatten([i \in 1..Len(es) |-> processPathOperations(d, es[i].item)])
    IN RefClosure(d, UNION {SchemaRefs(roots[i]) : i \in 1..Len(roots)})

\* C1: discoverModelPaths(filter) returns exactly the names reachable from the
\* paths matching the filter, each exactly once.
C1_ReturnsExactlyReachable ==
    dpc = "done" =>
        /\ Range(dresult) = ReachableNames(doc, dfilter)
        /\ NoDuplicates(dresult)

\* C2: discovery terminates on every document, cyclic dictionaries included;
\* during a call the set of expanded names only grows and no name is expanded
\* twice.
C2_DiscoveryTerminates ==
    /\ <>(dpc \in {"done", "threw"})
    /\ [][dpc = "walking" => processedRefs \subseteq processedRefs']_vars
    /\ [](NoDuplicates(expansions) /\ Range(expansions) = processedRefs)

C2_Witness ==
    /\ dpc = "done"
    /\ doc = DocLegacy
    /\ {Name("A"), Name("B"), Name("C")} \subseteq Range(expansions)
    /\ Len(dresult) = 5

\* C7: a path is selected only when the pattern matches the whole path.
C7_SelectedOnlyOnFullMatch ==
    (fpc = "done" /\ fResult.value) => FullMatch(fPattern, fText)

RecordsOf(outputs, modelRef) == {i \in 1..Len(outputs) : outputs[i].of = modelRef}

\* C3: generate(names) returns exactly one record for every distinct name of
\* the list that has a dictionary entry, whatever the order and the allOf
\* relations; a parent of another model of the list gets its own record.
C3_OneRecordPerName ==
    epc = "done" =>
        \A n \in Range(genArg) \cap DOMAIN definitions :
            Cardinality(RecordsOf(dtoOutputs, n)) = 1

\* the properties of the inline (non-$ref) members of allOf
InlineProperties(definition) ==
    LET inl == SelectSeq(definition.allOf,
                         LAMBDA m : ~Has(m, "ref") /\ Has(m, "properties"))
    IN Flatten([i \in 1..Len(inl) |-> inl[i].properties])

\* C4: a model that is allOf [parents..., inline member with properties] is
\* declared as the intersection of its parents extended with the inline
\* member's properties; it is a bare alias only without inline properties.
C4_InheritanceExtendsParents ==
    \A i \in 1..Len(dtoOutputs) :
        LET definition == definitions[dtoOutputs[i].of]
            decl == dtoOutputs[i].content.declaration
        IN (Has(definition, "allOf") /\ ~Has(definition, "properties")) =>
              LET inline == InlineProperties(definition)
              IN /\ decl.base = InheritanceOf(definition).typeDef
                 /\ (decl.kind = "alias") = (inline = <<>>)
                 /\ {decl.members[k].name : k \in 1..Len(decl.members)}
                       = {sanitizePropertyName(inline[k].name) : k \in 1..Len(inline)}

\* a refers to b through a property ($ref or array of $ref) or an allOf parent
RefersTo(dict, a, b) ==
    LET definition == dict[a]
        ps == IF Has(definition, "properties") THEN definition.properties ELSE <<>>
        ms == IF Has(definition, "allOf") THEN definition.allOf ELSE <<>>
    IN \/ \E k \in 1..Len(ps) :
             \/ Has(ps[k].schema, "ref") /\ extractRefName(ps[k].schema.ref) = b
             \/ /\ Has(ps[k].schema, "items") /\ Has(ps[k].schema.items, "ref")
                /\ extractRefName(ps[k].schema.items.ref) = b
       \/ \E k \in 1..Len(ms) : Has(ms[k], "ref") /\ extractRefName(ms[k].ref) = b

MutualPair(dict, a, b) ==
    /\ a # b /\ {a, b} \subseteq DOMAIN dict
    /\ RefersTo(dict, a, b) /\ RefersTo(dict, b, a)

\* the record names the other model: an import of it, and its name as a
\* member type or an intersection parent
NamesByReference(output, other) ==
    LET leaf == getModelPathAndName(other).modelName
        decl == output.content.declaration
    IN /\ \E k \in 1..Len(output.content.imports) :
             output.content.imports[k] = ImportOf(other)
       /\ \/ leaf \in Range(decl.base)
          \/ \E k \in 1..Len(decl.members) : decl.members[k].type[1] = leaf

\* C5: emitting two models that refer to each other terminates with exactly
\* two records, one per model, each naming the other by reference.
C5_MutualPairTwoRecords ==
    \A a, b \in DOMAIN definitions :
        (genArg = <<a, b>> /\ MutualPair(definitions, a, b)) =>
            /\ Len(frames) <= 3
            /\ epc = "done" =>
                  /\ Len(dtoOutputs) = 2
                  /\ \E i, j \in 1..2 :
                        /\ dtoOutputs[i].of = a /\ NamesByReference(dtoOutputs[i], b)
                        /\ dtoOutputs[j].of = b /\ NamesByReference(dtoOutputs[j], a)

\* every record buildOutput has returned, kept by generate or not
AllRecords == dtoOutputs \o dropped

\* C6: every emitted property, in interface and intersection form alike, is
\* optional when absent from required or nullable, and non-optional exactly
\* when required and not nullable.
C6_OptionalityRule ==
    \A i \in 1..Len(AllRecords) :
        LET definition == definitions[AllRecords[i].of]
            ps == IF Has(definition, "properties") THEN definition.properties ELSE <<>>
            members == AllRecords[i].content.declaration.members
        IN /\ Len(members) = Len(ps)
           /\ \A k \in 1..Len(ps) :
                 LET required == Has(definition, "required")
                                 /\ ps[k].name \in Range(definition.required)
                     nullable == Has(ps[k].schema, "nullable") /\ ps[k].schema.nullable
                 IN /\ members[k].name = sanitizePropertyName(ps[k].name)
                    /\ (members[k].mark = "?") = (~required \/ nullable)
                    /\ (members[k].mark = "") = (required /\ ~nullable)

\* an interface with a required nullable property emitted optional and an
\* intersection with a required non-nullable property emitted non-optional
C6_Witness ==
    /\ epc = "done"
    /\ \E i \in 1..Len(AllRecords) :
          /\ AllRecords[i].content.declaration.kind = "intersection"
          /\ \E k \in 1..Len(AllRecords[i].content.declaration.members) :
                LET m == AllRecords[i].content.declaration.members[k]
                IN m.name = <<"a", "_", "b">> /\ m.mark = ""
          /\ \E k \in 1..Len(AllRecords[i].content.declaration.members) :
                LET m == AllRecords[i].content.declaration.members[k]
                IN m.name = <<"y">> /\ m.mark = "?"
          /\ \E k \in 1..Len(AllRecords[i].content.declaration.members) :
                LET m == AllRecords[i].content.declaration.members[k]
                IN m.name = <<"z">> /\ m.mark = "?"

\* the reported generation failures
GenerationFailures ==
    {i \in 1..Len(reported) : reported[i].error.name = "Error"}

\* C8: a failure of one path pattern is wrapped with the pattern and
\* reported, and the remaining patterns of the endpoint group still run.
C8_SiblingPatternsProceed ==
    rpc = "done" =>
        \A i \in GenerationFailures :
            LET ep == reported[i].ep
                cause == reported[i].error.cause
            IN /\ cause.context = config.endpoints[ep].paths[cause.pat]
               /\ \A pat \in 1..Len(config.endpoints[ep].paths) :
                     pat > cause.pat => <<ep, pat>> \in attempted

FailedFetches == {i \in 1..Len(fetches) : ~fetches[i].ok}

\* C9: a failed fetch is reported with the URL, nothing is generated or
\* written for that group, later groups are still processed and generate
\* does not throw.
C9_FetchFailureIsolated ==
    \A i \in FailedFetches :
        LET ep == fetches[i].ep
        IN /\ \E r \in 1..Len(reported) :
                 /\ reported[r].error.name = "APISpecError"
                 /\ reported[r].error.url = config.endpoints[ep].url
                 /\ reported[r].api = config.endpoints[ep].url
           /\ \A pat \in 1..Len(config.endpoints[ep].paths) : <<ep, pat>> \notin attempted
           /\ \A w \in 1..Len(writes) : writes[w].path[1] # ep
           /\ rpc # "threw"
           /\ rpc = "done" =>
                 \A later \in 1..Len(config.endpoints) :
                     later > ep => \E f \in 1..Len(fetches) : fetches[f].ep = later

\* the first group's fetch failed, the second group was generated and written
C9_Witness ==
    /\ rpc = "done"
    /\ ~fetches[1].ok /\ fetches[1].ep = 1
    /\ Len(fetches) = 2 /\ fetches[2].ok
    /\ \E w \in 1..Len(writes) : writes[w].path[1] = 2 /\ writes[w].ok

\* the writes of the writeOutputs call in progress or just finished
BatchWrites(n) == SubSeq(writes, Len(writes) - n + 1, Len(writes))

\* C10: writeOutputs attempts every record exactly once, in list order; a
\* failed write is counted and reported and the rest is still written; at
\* the end success count plus error count is the number of records.
C10_EveryRecordWrittenOnce ==
    /\ rpc = "writing" =>
          LET n == pending.next - 1
              batch == BatchWrites(n)
          IN /\ n <= Len(writes) /\ n <= Len(pending.outputs)
             /\ \A i \in 1..n : batch[i].path = pending.outputs[i].path
             /\ successCount = Cardinality({i \in 1..n : batch[i].ok})
             /\ errorCount = Cardinality({i \in 1..n : ~batch[i].ok})
    /\ \A i \in 1..Len(wlog) :
          /\ wlog[i].success + wlog[i].errors = wlog[i].total
          /\ Cardinality({w \in 1..Len(writes) :
                            /\ writes[w].path[1] = wlog[i].ep
                            /\ writes[w].path[2] = wlog[i].pat}) = wlog[i].total
    /\ \A w \in 1..Len(writes) :
          ~writes[w].ok =>
              \E r \in 1..Len(reported) :
                  reported[r].error.name = "write" /\ reported[r].error.path = writes[w].path

\* a batch whose first write failed and whose second write succeeded
C10_Witness ==
    /\ Len(wlog) >= 1
    /\ wlog[1].total = 2 /\ wlog[1].errors = 1 /\ wlog[1].success = 1
    /\ ~writes[1].ok /\ writes[2].ok

\* the wrapper records of the run, and the operation a wrapper was built for
Wrappers == getOutputs \o postOutputs
EntryOf(d, path) == CHOOSE e \in Range(d.paths) : e.path = path
OperationOf(d, w) == EntryOf(d, w.of).item[w.method]
WrappersFor(path, method) ==
    {k \in 1..Len(Wrappers) : Wrappers[k].of = path /\ Wrappers[k].method = method}

\* C11: a run over one pattern yields exactly one wrapper record for every
\* pair of a path the walker selects and a method (get, post, put, delete)
\* defined on it, and no other wrapper record.
C11_OneWrapperPerOperation ==
    ppc = "done" =>
        LET es == pathsToProcess(doc, patternArg)
        IN /\ \A i \in 1..Len(es) : \A m \in Range(WalkedMethods) :
                 Has(es[i].item, m) => Cardinality(WrappersFor(es[i].path, m)) = 1
           /\ \A k \in 1..Len(Wrappers) :
                 \E i \in 1..Len(es) :
                     es[i].path = Wrappers[k].of /\ Has(es[i].item, Wrappers[k].method)

\* no response of the operation carries a schema, directly or in a media type
NoSchemaAtAll(operation) ==
    \A i \in 1..Len(operation.responses) :
        LET r == operation.responses[i]
        IN /\ ~Has(r, "schema")
           /\ Has(r, "content") =>
                 \A j \in 1..Len(r.content) : ~Has(r.content[j], "schema")

\* C12: when the response of an operation declares no schema at all, the
\* response type is the no-content marker and the wrapper (read-style,
\* write-style with or without body) extends its base shape without a
\* generic response type parameter.
C12_NoContentOmitsGeneric ==
    \A k \in 1..Len(Wrappers) :
        NoSchemaAtAll(OperationOf(doc, Wrappers[k])) =>
            /\ Wrappers[k].responseType = <<"void">>
            /\ Wrappers[k].content.class.extends.generic = <<>>

\* the type of the first declared response: the schema of its first declared
\* media type (current dialect) or its direct schema (legacy dialect), the
\* no-content marker when it has none
FirstDeclaredType(d, operation) ==
    LET r == operation.responses[1]
    IN IF d.openapi /\ Has(r, "content")
       THEN (IF r.content = <<>> THEN <<"void">>
             ELSE normalizeSchemaType(SchemaOf(r.content[1])))
       ELSE normalizeSchemaType(SchemaOf(r))

\* C13: the response type of a wrapper is that of the first declared response
\* of its operation; a later response or media type never determines it.
C13_FirstDeclaredResponseDecides ==
    \A k \in 1..Len(Wrappers) :
        Wrappers[k].responseType = FirstDeclaredType(doc, OperationOf(doc, Wrappers[k]))

\* the write-style wrappers whose body references a model of the dictionary
PayloadWrappers ==
    {k \in 1..Len(postOutputs) :
        extractRequestBodyType(doc, OperationOf(doc, postOutputs[k]))
            \in DOMAIN getDefinitions(doc)}

\* C14: the body-population routine of a write-style wrapper has one copy
\* statement per declared property of the body model M, and the field names
\* it reads from the payload are the property names the model emitter
\* declares for M, sanitized names included.
C14_BodyRoutineMirrorsModel ==
    \A k \in PayloadWrappers :
        LET M == extractRequestBodyType(doc, OperationOf(doc, postOutputs[k]))
            declared == OutputRecord(getDefinitions(doc), M).content.declaration.members
            statements == postOutputs[k].content.class.methods[1].statements
        IN /\ Len(statements) = Len(declared)
           /\ {statements[i].read : i \in 1..Len(statements)}
                 = {declared[i].name : i \in 1..Len(declared)}

\* the setupBody methods of a wrapper
SetupBodyOf(w) == SelectSeq(w.content.class.methods, LAMBDA m : m.name = "setupBody")

\* the body of the operation resolves to a model of the dictionary
BodyResolves(d, operation) ==
    extractRequestBodyTypeCurrentOnly(d, operation) \in DOMAIN getDefinitions(d)
    \/ /\ ~d.openapi /\ Has(operation, "parameters")
       /\ \E i \in 1..Len(operation.parameters) :
             LET param == operation.parameters[i]
             IN /\ param.in = "body" /\ Has(param, "schema") /\ Has(param.schema, "ref")
                /\ Last(param.schema.ref) \in DOMAIN getDefinitions(d)

\* C15: every path the filter matches that defines a POST operation yields a
\* wrapper record with a setupBody routine; without a body, with an inline
\* body or with a body reference absent from the dictionary the routine is
\* present and empty.
C15_SetupBodyAlwaysPresent ==
    ppc = "done" =>
        \A i \in 1..Len(doc.paths) :
            LET e == doc.paths[i]
            IN (Has(e.item, "post") /\ regexFilter(e.path, patternArg).value) =>
                  /\ \E k \in 1..Len(postOutputs) : postOutputs[k].of = e.path
                  /\ \A k \in 1..Len(postOutputs) :
                        postOutputs[k].of = e.path =>
                            /\ Len(SetupBodyOf(postOutputs[k])) = 1
                            /\ ~BodyResolves(doc, e.item.post) =>
                                  SetupBodyOf(postOutputs[k])[1].statements = <<>>

\* an inline body and a body reference without dictionary entry: two wrappers
\* whose routine is empty
C15_Witness ==
    /\ ppc = "done" /\ doc = DocWrapCurrent
    /\ Len(postOutputs) = 2
    /\ postOutputs[1].content.class.properties = <<>>
    /\ postOutputs[2].content.class.properties # <<>>
    /\ \A k \in 1..2 : SetupBodyOf(postOutputs[k])[1].statements = <<>>

\* the query and path parameters of a read operation, as declared
DeclaredUrlParameters(item) ==
    SelectSeq((IF Has(item, "parameters") THEN item.parameters ELSE <<>>)
              \o (IF Has(item.get, "parameters") THEN item.get.parameters ELSE <<>>),
              LAMBDA param : param.in \in {"query", "path"})

SetupUrlOf(w) == SelectSeq(w.content.class.methods, LAMBDA m : m.name = "setupURL")

\* C16: a read-style wrapper has the parameters shape and the URL-population
\* routine exactly when the endpoint has a query or path parameter, with one
\* property and one append statement per query/path parameter and for no
\* other parameter.
C16_QueryShapeOnlyForUrlParameters ==
    \A k \in 1..Len(getOutputs) :
        LET w == getOutputs[k]
            ps == DeclaredUrlParameters(EntryOf(doc, w.of).item)
        IN /\ (w.content.shapes # <<>>) = (ps # <<>>)
           /\ (SetupUrlOf(w) # <<>>) = (ps # <<>>)
           /\ \A i \in 1..Len(w.content.shapes) :
                 [j \in 1..Len(w.content.shapes[i].members) |->
                     w.content.shapes[i].members[j].name]
                    = [j \in 1..Len(ps) |-> sanitizePropertyName(ps[j].name)]
           /\ \A i \in 1..Len(SetupUrlOf(w)) :
                 [j \in 1..Len(SetupUrlOf(w)[i].statements) |->
                     SetupUrlOf(w)[i].statements[j].key]
                    = [j \in 1..Len(ps) |-> ps[j].name]

ModelRecords(outputs) == SelectSeq(outputs, LAMBDA r : ~Has(r, "method"))
WrapperRecords(outputs) == SelectSeq(outputs, LAMBDA r : Has(r, "method"))

\* C17: for the legacy document with the single path /auth/Login (POST, body
\* LoginRequest {username, password}, response LoginResponse {token}) a run
\* over that path does not fail and hands over exactly three records: the
\* two models and one write-style wrapper whose body routine copies exactly
\* username and password.
C17_LoginScenario ==
    (doc = DocLogin /\ patternArg = LoginPath) =>
        /\ ppc # "threw"
        /\ ppc = "done" =>
              LET models == ModelRecords(allOutputs)
                  wrappers == WrapperRecords(allOutputs)
              IN /\ Len(allOutputs) = 3
                 /\ Len(models) = 2
                 /\ {models[i].of : i \in 1..2}
                       = {Name("LoginRequest"), Name("LoginResponse")}
                 /\ Len(wrappers) = 1
                 /\ wrappers[1].of = LoginPath /\ wrappers[1].method = "post"
                 /\ Len(SetupBodyOf(wrappers[1])) = 1
                 /\ LET statements == SetupBodyOf(wrappers[1])[1].statements
                    IN /\ Len(statements) = 2
                       /\ {statements[i].key : i \in 1..2} = {<<"username">>, <<"password">>}
                       /\ \A i \in 1..2 : statements[i].read = statements[i].key

C17_Witness ==
    /\ doc = DocLogin /\ patternArg = LoginPath /\ ppc = "done"
    /\ Len(allOutputs) = 3
    /\ Len(warnings) = 0

\* C18: a call of discoverModelPaths with the filter of an earlier call on
\* the same document returns the same set of names (and fails when the
\* earlier call failed), also after a call with another filter on the same
\* parser and after the entries of paths were reordered.
C18_DiscoveryIdempotent ==
    (dphase \in {"again", "again after another"} /\ dpc \in {"done", "threw"}) =>
        /\ dfilter = dfirst.filter
        /\ (dpc = "threw") = dfirst.threw
        /\ dpc = "done" => Range(dresult) = dfirst.names

\* the filter "/" again, after a call with another filter that found more
\* names, on the document with its paths in the opposite order
C18_Witness ==
    /\ dphase = "again after another" /\ dpc = "done"
    /\ doc.paths = Reverse(DocLegacy.paths)
    /\ dfirst.filter = <<"/">>
    /\ Range(dresult) = {Name("A"), Name("B")}

\* buildOutput was called for a name that is in the processed set
ReEmissionRequested ==
    epc = "run" /\ frames # <<>> /\ Top.pc = "enter" /\ Top.modelRef \in dtoProcessedRefs

\* C19: a request to emit a name that was emitted before (again in the list
\* or as a parent) returns nothing, adds no record and leaves the processed
\* and the in-progress set as they are; no name ever gets a second record.
C19_EmissionIdempotent ==
    /\ [][ReEmissionRequested =>
             /\ frames' = Front(frames)
             /\ dtoOutputs' = dtoOutputs /\ dropped' = dropped
             /\ dtoProcessedRefs' = dtoProcessedRefs
             /\ processingStack' = processingStack]_vars
    /\ [](\A n \in DOMAIN definitions : Cardinality(RecordsOf(AllRecords, n)) <= 1)

\* Base twice in the list and once more as the parent of Child
C19_Witness ==
    /\ epc = "done"
    /\ genArg = <<Name("Base"), Name("Base"), Name("Child")>>
    /\ Len(dtoOutputs) = 2 /\ dropped = <<>>

\* buildOutput was called for a name that has no dictionary entry
MissingRequested ==
    /\ epc = "run" /\ frames # <<>> /\ Top.pc = "enter"
    /\ Top.modelRef \notin DOMAIN definitions
    /\ Top.modelRef \notin dtoProcessedRefs

\* C20: a request to emit a name without dictionary entry returns nothing,
\* warns with the name, does not throw and leaves the processed and the
\* in-progress set as they are; every name of the list that has an entry is
\* still emitted.
C20_MissingSchemaSkipped ==
    /\ [][MissingRequested =>
             /\ frames' = Front(frames)
             /\ warnings' = Append(warnings, Top.modelRef)
             /\ dtoOutputs' = dtoOutputs /\ dropped' = dropped
             /\ dtoProcessedRefs' = dtoProcessedRefs
             /\ processingStack' = processingStack
             /\ epc' = "run"]_vars
    /\ [](epc = "done" =>
             /\ \A n \in Range(genArg) \cap DOMAIN definitions :
                   Cardinality(RecordsOf(AllRecords, n)) = 1
             /\ \A n \in Range(genArg) \ DOMAIN definitions :
                   n \in Range(warnings) /\ RecordsOf(AllRecords, n) = {})

\* the missing name first, then a model that has an entry
C20_Witness ==
    /\ epc = "done"
    /\ genArg = <<MissingName, Name("Base")>>
    /\ warnings = <<MissingName>>
    /\ Len(dtoOutputs) = 1 /\ dtoOutputs[1].of = Name("Base")

(***************************************************************************)
(* C21: the text an instance produces depends on its own configuration     *)
(* only: whichever other instances are constructed or run before or        *)
(* between its steps, it is the text a builder with the indentation of the *)
(* configuration of the instance produces.                                 *)
(***************************************************************************)
C21_OutputDependsOnOwnInputs ==
    \A g \in DOMAIN instances :
        instances[g].state = "done" =>
            instances[g].text =
                InterfaceText(EmittedModel,
                              setDefaultIndentLevel(instances[g].indentation))

(***************************************************************************)
(* C26: build() returns the lines accumulated since the last reset and     *)
(* leaves the builder with empty content and indent level 0, so that a     *)
(* build() right after it returns the empty text; the indent level is      *)
(* never negative.                                                         *)
(***************************************************************************)
C26_BuildReturnsAndResets ==
    /\ [][lastCall' = "build" =>
            /\ returned' = [kind |-> "text", text |-> accumulated]
            /\ builder'.content = <<>>
            /\ builder'.indentLevel = 0
            /\ (lastCall = "build" => returned'.text = <<>>)]_vars
    /\ [](builder.indentLevel >= 0)

\* a build() that returned an indented block and left the builder empty
C26_Witness ==
    /\ lastCall = "build"
    /\ Len(returned.text) >= 2
    /\ \E i \in 1..Len(returned.text) : returned.text[i].indent > 0
    /\ builder.content = <<>> /\ builder.indentLevel = 0

(***************************************************************************)
(* C22: a wrapper extends the binary/file base shape, without generic      *)
(* parameter, exactly when a part of its first response type holds the     *)
(* token Stream; every other wrapper extends the JSON base shape.          *)
(***************************************************************************)
StreamNames == {"Stream", "FileStream", "StreamContent"}

HoldsStreamToken(type) == \E i \in 1..Len(type) : type[i] \in StreamNames

ExtendsOf(w) == w.content.class.extends

C22_StreamRoutesToFileBase ==
    ppc = "done" =>
        \A i \in 1..Len(Wrappers) :
            LET w == Wrappers[i]
            IN IF HoldsStreamToken(w.responseType)
               THEN ExtendsOf(w) = [base |-> "PdfWebServiceRequest", generic |-> <<>>]
               ELSE ExtendsOf(w).base = "JsonWebServiceRequest"

\* a run that gave a read-style and a write-style wrapper on the file base
\* shape
C22_Witness ==
    /\ ppc = "done"
    /\ \E i \in 1..Len(Wrappers) :
          /\ Wrappers[i].method = "get"
          /\ Wrappers[i].responseType = <<"FileStream">>
          /\ ExtendsOf(Wrappers[i]).base = "PdfWebServiceRequest"
    /\ \E i \in 1..Len(Wrappers) :
          /\ Wrappers[i].method = "post"
          /\ Wrappers[i].responseType = <<"IO", "Stream">>
          /\ ExtendsOf(Wrappers[i]).base = "PdfWebServiceRequest"

(***************************************************************************)
(* C23: when a call of buildOutput ends, by a record, by nothing or by an  *)
(* exception, its name is in the in-progress set only if an enclosing call *)
(* for the same name is still in progress; when generate returns or throws *)
(* the in-progress set is empty; no name ever leaves the processed set.    *)
(***************************************************************************)
InProgressIn(stack, modelRef) ==
    \E i \in 1..Len(stack) : stack[i].modelRef = modelRef /\ stack[i].pc = "parents"

C28_InProgressWithinProcessed ==
    /\ [](processingStack \subseteq dtoProcessedRefs)
    /\ [][(processingStack' \ processingStack)
              \subseteq (dtoProcessedRefs' \ dtoProcessedRefs)]_vars
    /\ [](frames # <<>> /\ Top.pc = "enter" /\ Top.modelRef \in processingStack
             => Top.modelRef \in dtoProcessedRefs)

\* a call for a name that is in progress is about to run its checks
C28_Witness ==
    /\ epc = "run" /\ frames # <<>>
    /\ Top.pc = "enter"
    /\ Top.modelRef \in processingStack

(***************************************************************************)
(* C25: the type of an array property is a sequence of its item type: the  *)
(* leaf name of the model when items is a $ref, otherwise the primitive    *)
(* mapping of the type and the format of the item schema.                  *)
(***************************************************************************)
ItemTypeOf(items) ==
    IF Has(items, "ref") THEN getModelPathAndName(extractRefName(items.ref)).modelName
    ELSE mapPrimitiveType(IF Has(items, "type") THEN items.type ELSE "any",
                          IF Has(items, "format") THEN items.format ELSE NoFormat)

C25_ArrayItemType ==
    \A i \in 1..Len(AllRecords) :
        LET definition == definitions[AllRecords[i].of]
            ps == IF Has(definition, "properties") THEN definition.properties ELSE <<>>
            members == AllRecords[i].content.declaration.members
        IN \A k \in 1..Len(ps) :
              (/\ ~Has(ps[k].schema, "ref")
               /\ Has(ps[k].schema, "type") /\ ps[k].schema.type = "array"
               /\ Has(ps[k].schema, "items"))
              => members[k].type = <<ItemTypeOf(ps[k].schema.items), "[]">>

(***************************************************************************)
(* C30: every model a declaration names as the type of a property, of the  *)
(* items of an array, of the values of a map or as a parent, other than    *)
(* the declared model itself, has exactly one import in the record; a      *)
(* reference of the model to itself has none.                              *)
(***************************************************************************)
\* the models the declaration of a definition names
NamedModels(definition) ==
    LET ps == IF Has(definition, "properties") THEN definition.properties ELSE <<>>
        named(schema) ==
            IF Has(schema, "ref") THEN {extractRefName(schema.ref)}
            ELSE IF Has(schema, "type") /\ schema.type = "array"
            THEN (IF Has(schema, "items") /\ Has(schema.items, "ref")
                  THEN {extractRefName(schema.items.ref)} ELSE {})
            ELSE IF /\ Has(schema, "type") /\ schema.type = "object"
                    /\ Has(schema, "additionalProperties")
                    /\ schema.additionalProperties.typeof = "object"
                    /\ Has(schema.additionalProperties.schema, "ref")
            THEN {extractRefName(schema.additionalProperties.schema.ref)}
            ELSE {}
        parents == IF Has(definition, "allOf")
                   THEN {extractRefName(definition.allOf[k].ref) :
                            k \in {j \in 1..Len(definition.allOf) :
                                      Has(definition.allOf[j], "ref")}}
                   ELSE {}
    IN parents \cup UNION {named(ps[k].schema) : k \in 1..Len(ps)}

ImportsOfModel(record, refPath) ==
    {k \in 1..Len(record.content.imports) : record.content.imports[k] = ImportOf(refPath)}

C30_NamedModelsImportedOnce ==
    \A i \in 1..Len(AllRecords) :
        \A refPath \in NamedModels(definitions[AllRecords[i].of]) :
            Cardinality(ImportsOfModel(AllRecords[i], refPath))
                = IF refPath = AllRecords[i].of THEN 0 ELSE 1

(***************************************************************************)
(* C24: for the filter of a run, each endpoint emitter selects the paths   *)
(* the walker selects, among the paths that define its method: no path     *)
(* whose models were discovered is skipped, no skipped path is emitted.    *)
(***************************************************************************)
EmitterMethods == {"get", "post"}

C24_EmittersSelectWalkedPaths ==
    ppc = "done" =>
        \A i \in 1..Len(doc.paths) : \A m \in EmitterMethods :
            Has(doc.paths[i].item, m) =>
                ((WrappersFor(doc.paths[i].path, m) # {})
                    <=> (doc.paths[i] \in Range(pathsToProcess(doc, patternArg))))

(***************************************************************************)
(* C27: no two output records of one run, model records and wrapper        *)
(* records together, have the same output path.                            *)
(***************************************************************************)
SamePath(a, b) == a.path.dir = b.path.dir /\ a.path.file = b.path.file

C27_OutputPathsDistinct ==
    ppc = "done" =>
        \A i, j \in 1..Len(allOutputs) :
            SamePath(allOutputs[i], allOutputs[j]) => i = j

(***************************************************************************)
(* C29: a wrapper whose first response type is a referenced model imports  *)
(* that model once and has its leaf name as generic parameter, in every    *)
(* wrapper variant; a capitalized primitive placeholder or the no-content  *)
(* marker gives no model import.  (Types routed to the file base shape     *)
(* have no generic parameter and are left aside.)                          *)
(***************************************************************************)
Placeholders ==
    {<<"String">>, <<"Number">>, <<"Integer">>, <<"Boolean">>, <<"Object">>, <<"Array">>}

ImportsOfType(w, type) ==
    {k \in 1..Len(w.content.imports) : w.content.imports[k] = ImportOf(type)}

C29_ResponseModelImported ==
    ppc = "done" =>
        \A i \in 1..Len(Wrappers) :
            LET w == Wrappers[i]
                type == w.responseType
            IN (type # <<>> /\ ~HoldsStreamToken(type)) =>
                  IF type \in Placeholders \cup {<<"void">>}
                  THEN ImportsOfType(w, type) = {}
                  ELSE /\ Cardinality(ImportsOfType(w, type)) = 1
                       /\ ExtendsOf(w).generic
                             = <<<<getModelPathAndName(type).modelName>>>>

====
